---- MODULE Spec2Model ----
(***************************************************************************)
(* News article aggregator: the clustering engine (TopicClusterer), the    *)
(* article store (ArticleStore), the cache (CacheManager) and the          *)
(* processing pipeline (Pipeline.process_articles) that wires them.        *)
(*                                                                         *)
(* Python objects are mutable and shared by reference, so Article objects  *)
(* live in a heap (object id -> fields); the in-memory store, the          *)
(* pipeline's local lists and the clusterer all hold object ids.           *)
(***************************************************************************)
EXTENDS Integers, Sequences, FiniteSets, TLC

\* ---------------------------------------------------------------- bounds
\* Most raw articles one fetch can deliver from the sources.
MaxRaw == 2
\* Most runs of process_articles in one behaviour.
MaxRuns == 1
\* Most articles handed to one direct cluster_articles call.
MaxArticles == 6
\* Most direct cluster_articles calls in one behaviour.
MaxCalls == 2
\* Largest label the density algorithm hands out (labels are -1..MaxLabel).
MaxLabel == 1
\* Most collaborator failures injected in one behaviour.
MaxFaults == 2

\* Articles of the batch whose clusters are split.
SplitSize == 10

\* Longest list handed to deduplicate on its own.
MaxDedup == 3

\* Largest max_retries given to retry_with_backoff.
MaxRetries == 2

\* Most words of a content handed to the summarizer on its own, largest
\* max_length of such a summarizer, most contents of one batch.
MaxWords == 3
MaxLength == 2
MaxBatch == 2

\* Calls made on a CacheManager on its own, and the latest time of a call.
MaxOps == 3
MaxTime == 2

\* The configurations and article counts for which the parameters handed to
\* HDBSCAN are computed: min_cluster_size up to MaxMinClusterSize, min_samples
\* up to MaxMinSamples, at most MaxCount articles.
MaxMinClusterSize == 6

MaxMinSamples == 4

MaxCount == 12

\* Requests the read handlers answer in one behaviour.
MaxReads == 1

\* ------------------------------------------------------- program constants
\* TopicClusterer(min_cluster_size=2, min_samples=2), as the tests build it.
min_cluster_size == 2
min_samples == 2
\* max_cluster_articles: the size above which a cluster is split (a
\* constructor parameter, 50 by default), scaled down with the batches.
max_cluster_articles == 3
\* Reserved cluster ids: density noise bucket and keyword miscellaneous bucket.
NOISE_ID == 999
MISC_ID == 7
\* Python's None for the optional integer fields (summary, cluster_id).
None == -1
\* settings: fetcher.min_content_words and summarizer.max_summary_words.
min_content_words == 100
max_summary_words == 150

\* ---------------------------------------------------------------- helpers
Range(s) == {s[i] : i \in 1..Len(s)}

Max2(a, b) == IF a >= b THEN a ELSE b

Min2(a, b) == IF a <= b THEN a ELSE b

\* ------------------------------------------------- keyword classification
UpperToLower ==
    ("A" :> "a") @@ ("B" :> "b") @@ ("C" :> "c") @@ ("D" :> "d") @@ ("E" :> "e") @@ ("F" :> "f")
 @@ ("G" :> "g") @@ ("H" :> "h") @@ ("I" :> "i") @@ ("J" :> "j") @@ ("K" :> "k") @@ ("L" :> "l")
 @@ ("M" :> "m") @@ ("N" :> "n") @@ ("O" :> "o") @@ ("P" :> "p") @@ ("Q" :> "q") @@ ("R" :> "r")
 @@ ("S" :> "s") @@ ("T" :> "t") @@ ("U" :> "u") @@ ("V" :> "v") @@ ("W" :> "w") @@ ("X" :> "x")
 @@ ("Y" :> "y") @@ ("Z" :> "z")

keyword_map ==
      (0 :> <<<<"a","i">>,
            <<"a","r","t","i","f","i","c","i","a","l">>,
            <<"t","e","c","h","n","o","l","o","g","y">>,
            <<"t","e","c","h">>,
            <<"s","o","f","t","w","a","r","e">>,
            <<"d","i","g","i","t","a","l">>,
            <<"c","o","m","p","u","t","e","r">>,
            <<"r","o","b","o","t">>,
            <<"m","a","c","h","i","n","e">>>>)
   @@ (1 :> <<<<"c","l","i","m","a","t","e">>,
            <<"e","n","v","i","r","o","n","m","e","n","t">>,
            <<"g","r","e","e","n">>,
            <<"e","n","e","r","g","y">>,
            <<"c","a","r","b","o","n">>,
            <<"w","a","r","m","i","n","g">>,
            <<"p","o","l","l","u","t","i","o","n">>,
            <<"w","e","a","t","h","e","r">>>>)
   @@ (2 :> <<<<"p","o","l","i","t","i","c","s">>,
            <<"p","o","l","i","c","y">>,
            <<"g","o","v","e","r","n","m","e","n","t">>,
            <<"e","l","e","c","t","i","o","n">>,
            <<"p","r","e","s","i","d","e","n","t">>,
            <<"c","o","n","g","r","e","s","s">>,
            <<"v","o","t","e">>,
            <<"p","a","r","t","y">>>>)
   @@ (3 :> <<<<"h","e","a","l","t","h">>,
            <<"s","c","i","e","n","c","e">>,
            <<"r","e","s","e","a","r","c","h">>,
            <<"m","e","d","i","c","a","l">>,
            <<"d","i","s","e","a","s","e">>,
            <<"v","a","c","c","i","n","e">>,
            <<"h","o","s","p","i","t","a","l">>,
            <<"s","t","u","d","y">>>>)
   @@ (4 :> <<<<"b","u","s","i","n","e","s","s">>,
            <<"e","c","o","n","o","m","y">>,
            <<"m","a","r","k","e","t">>,
            <<"f","i","n","a","n","c","e">>,
            <<"s","t","o","c","k">>,
            <<"t","r","a","d","e">>,
            <<"c","o","m","p","a","n","y">>,
            <<"r","e","v","e","n","u","e">>>>)
   @@ (5 :> <<<<"s","p","o","r","t","s">>,
            <<"e","n","t","e","r","t","a","i","n","m","e","n","t">>,
            <<"g","a","m","e">>,
            <<"m","o","v","i","e">>,
            <<"m","u","s","i","c">>,
            <<"t","e","a","m">>,
            <<"p","l","a","y","e","r">>,
            <<"w","i","n">>>>)
   @@ (6 :> <<<<"w","o","r","l","d">>,
            <<"i","n","t","e","r","n","a","t","i","o","n","a","l">>,
            <<"w","a","r">>,
            <<"p","e","a","c","e">>,
            <<"c","r","i","s","i","s">>,
            <<"n","a","t","i","o","n">>,
            <<"c","o","u","n","t","r","y">>,
            <<"g","l","o","b","a","l">>>>)

KEYWORD_LABELS ==
    (0 :> "Technology & AI") @@ (1 :> "Climate & Environment")
 @@ (2 :> "Politics & Policy") @@ (3 :> "Health & Science")
 @@ (4 :> "Business & Economy") @@ (5 :> "Sports & Entertainment")
 @@ (6 :> "World News") @@ (7 :> "Miscellaneous")

\* str.lower() on one character and on a title (a sequence of characters).
LowerChar(c) == IF c \in DOMAIN UpperToLower THEN UpperToLower[c] ELSE c

Lower(title) == [i \in 1..Len(title) |-> LowerChar(title[i])]

\* Python's `word in title_lower`: word occurs as a contiguous substring.
IsSubstring(word, text) ==
    \E i \in 1..(Len(text) - Len(word) + 1) :
        SubSeq(text, i, i + Len(word) - 1) = word

\* any(word in title_lower for word in keywords)
AnyKeyword(cluster_id, title_lower) ==
    \E k \in 1..Len(keyword_map[cluster_id]) :
        IsSubstring(keyword_map[cluster_id][k], title_lower)

\* Mutant: the last matching bucket wins instead of the first.
KeywordBucketLast(title) ==
    LET tl == Lower(title)
        hits == {c \in DOMAIN keyword_map : AnyKeyword(c, tl)}
    IN IF hits = {} THEN MISC_ID
       ELSE CHOOSE c \in hits : \A d \in hits : c >= d

\* The bucket the first-match loop of _keyword_cluster picks for a title.
KeywordBucket(title) ==
    LET tl == Lower(title)
        hits == {c \in DOMAIN keyword_map : AnyKeyword(c, tl)}
    IN IF hits = {} THEN MISC_ID
       ELSE CHOOSE c \in hits : \A d \in hits : c <= d

\* ------------------------------------------------------------ data model
\* models/article.py Article (source, author, fetched_date and embedding
\* take no part in any operation modelled here).
Article(id, url, title, compressed_content, summary, published_date, cluster_id, content_hash) ==
    [id |-> id, url |-> url, title |-> title,
     compressed_content |-> compressed_content, summary |-> summary,
     published_date |-> published_date, cluster_id |-> cluster_id,
     content_hash |-> content_hash]

\* models/article.py Cluster: article_count is set once, by __post_init__.
\* A label is its text plus the sub-cluster number (0 for a top-level
\* cluster), which stands for the suffix " (Sub-<n>)".
\* Mutant: the dataclass without __post_init__ (article_count left at 0).
ClusterNoPostInit(id, label, article_ids, centroid, created_at, updated_at) ==
    [id |-> id, label |-> label, article_ids |-> article_ids,
     centroid |-> centroid, created_at |-> created_at,
     updated_at |-> updated_at, article_count |-> 0]

Cluster(id, label, article_ids, centroid, created_at, updated_at) ==
    [id |-> id, label |-> label, article_ids |-> article_ids,
     centroid |-> centroid, created_at |-> created_at,
     updated_at |-> updated_at, article_count |-> Len(article_ids)]

\* The local `clusters` dict of a clustering pass: Python dicts keep
\* insertion order, so it is a sequence of [cid, ids] entries.
MapKeys(m) == {m[i].cid : i \in 1..Len(m)}

MapGet(m, cid) == (CHOOSE i \in 1..Len(m) : m[i].cid = cid)

\* if cluster_id not in clusters: clusters[cluster_id] = []
\* clusters[cluster_id].append(article.id)
MapAppend(m, cid, aid) ==
    IF cid \in MapKeys(m)
    THEN [m EXCEPT ![MapGet(m, cid)].ids = Append(@, aid)]
    ELSE Append(m, [cid |-> cid, ids |-> <<aid>>])

\* ------------------------------------------------------- keyword fallback
\* Mutant: an article that already has a cluster_id keeps it.
RECURSIVE KeywordAssignSticky(_, _, _, _)
KeywordAssignSticky(articles, i, h, m) ==
    IF i > Len(articles) THEN [heap |-> h, map |-> m]
    ELSE LET a == articles[i]
             cid == IF h[a].cluster_id # None THEN h[a].cluster_id
                    ELSE KeywordBucket(h[a].title)
         IN KeywordAssignSticky(articles, i + 1,
                                [h EXCEPT ![a].cluster_id = cid],
                                MapAppend(m, cid, h[a].id))

\* The assignment loop of _keyword_cluster over articles[i..]: sets
\* cluster_id on each Article object in place and fills the local dict.
RECURSIVE KeywordAssign(_, _, _, _)
KeywordAssign(articles, i, h, m) ==
    IF i > Len(articles) THEN [heap |-> h, map |-> m]
    ELSE LET a == articles[i]
             cid == KeywordBucket(h[a].title)
         IN KeywordAssign(articles, i + 1,
                          [h EXCEPT ![a].cluster_id = cid],
                          MapAppend(m, cid, h[a].id))

\* self.clusters[cluster_id] = Cluster(...) for every entry of the local dict.
RECURSIVE KeywordRegister(_, _, _, _)
KeywordRegister(m, i, reg, now) ==
    IF i > Len(m) THEN reg
    ELSE KeywordRegister(m, i + 1,
            (m[i].cid :> Cluster(m[i].cid,
                                 [text |-> KEYWORD_LABELS[m[i].cid], sub |-> 0],
                                 m[i].ids, None, now, now)) @@ reg,
            now)

keyword_cluster(articles, h, reg, now) ==
    LET assigned == KeywordAssign(articles, 1, h, <<>>)
    IN [map |-> assigned.map, heap |-> assigned.heap,
        clusters |-> KeywordRegister(assigned.map, 1, reg, now),
        path |-> "keyword", top |-> MapKeys(assigned.map), subs |-> {}]

\* ------------------------------------------------------------ density path
\* What hdbscan.HDBSCAN(min_cluster_size = mcs).fit_predict can return for n
\* points: noise is -1, clusters are numbered 0..k-1, every cluster has at
\* least mcs points, and (allow_single_cluster is left False) k is never 1.
FitPredict(n, mcs) ==
    {l \in [1..n -> -1..MaxLabel] :
        LET used == {l[i] : i \in 1..n} \ {-1}
        IN /\ \A c \in used : \A d \in 0..c : d \in used
           /\ \A c \in used : Cardinality({i \in 1..n : l[i] = c}) >= mcs
           /\ Cardinality(used) # 1}

\* _generate_tfidf_label: up to three title terms joined by " & " when the
\* vectorizer is importable and some term survives; "Miscellaneous" when
\* there are no titles or the (swallowed) exception path is taken.
generate_tfidf_label(titles, tfidf_ok) ==
    IF titles = <<>> \/ ~tfidf_ok THEN "Miscellaneous" ELSE "Top & Terms"

\* Mutant: a noise point keeps the label -1 as its cluster id.
DensityIdKeepLabel(label) == label

\* for i, (article, label) in enumerate(zip(articles, labels)): ...
DensityId(label) == IF label >= 0 THEN label ELSE NOISE_ID

\* Mutant: noise points (label -1) are skipped instead of going to 999.
RECURSIVE DensityAssignDropNoise(_, _, _, _, _)
DensityAssignDropNoise(articles, labels, i, h, m) ==
    IF i > Len(articles) THEN [heap |-> h, map |-> m]
    ELSE LET a == articles[i]
         IN IF labels[i] < 0
            THEN DensityAssignDropNoise(articles, labels, i + 1, h, m)
            ELSE DensityAssignDropNoise(articles, labels, i + 1,
                     [h EXCEPT ![a].cluster_id = labels[i]],
                     MapAppend(m, labels[i], h[a].id))

RECURSIVE DensityAssign(_, _, _, _, _)
DensityAssign(articles, labels, i, h, m) ==
    IF i > Len(articles) THEN [heap |-> h, map |-> m]
    ELSE LET a == articles[i]
             cid == DensityId(labels[i])
         IN DensityAssign(articles, labels, i + 1,
                          [h EXCEPT ![a].cluster_id = cid],
                          MapAppend(m, cid, h[a].id))

\* The registry loop of _hdbscan_cluster over the first `upto` entries of the
\* local dict. The centroid (a mean of embedding rows) is kept as 0: present.
RECURSIVE DensityRegister(_, _, _, _, _, _, _, _)
DensityRegister(m, i, upto, articles, h, reg, now, tfidf_ok) ==
    IF i > upto THEN reg
    ELSE LET cluster_articles ==
                 SelectSeq(articles, LAMBDA a : h[a].id \in Range(m[i].ids))
             titles == [k \in 1..Len(cluster_articles) |->
                           h[cluster_articles[k]].title]
             label == generate_tfidf_label(titles, tfidf_ok)
         IN DensityRegister(m, i + 1, upto, articles, h,
                (m[i].cid :> Cluster(m[i].cid, [text |-> label, sub |-> 0],
                                     m[i].ids, 0, now, now)) @@ reg,
                now, tfidf_ok)

\* new_id = cluster_id * 100 + sub_id + 1
SubClusterId(cluster_id, sub_id) == cluster_id * 100 + sub_id + 1

\* The write loop of _sub_cluster for one labelling of the parent's members.
\* st is [clusters, subs]: the registry and the (parent, id) pairs allocated,
\* each with `nested`: the Cluster that was split is itself a sub-cluster.
RECURSIVE SubRegister(_, _, _, _, _, _)
SubRegister(cluster, members, sub_labels, todo, st, now) ==
    IF todo = {} THEN st
    ELSE LET sub_id == CHOOSE s \in todo : \A t \in todo : s <= t
             new_id == SubClusterId(cluster.id, sub_id)
             idx == SelectSeq([i \in 1..Len(members) |-> i],
                              LAMBDA i : sub_labels[i] = sub_id)
             sub_article_ids == [k \in 1..Len(idx) |-> members[idx[k]]]
             sub == Cluster(new_id,
                            [text |-> cluster.label.text, sub |-> sub_id + 1],
                            sub_article_ids, None, now, now)
         IN SubRegister(cluster, members, sub_labels, todo \ {sub_id},
                IF sub_article_ids # <<>>
                THEN [clusters |-> (new_id :> sub) @@ st.clusters,
                      subs |-> st.subs \cup
                               {[parent |-> cluster.id, id |-> new_id,
                                 nested |-> cluster.label.sub > 0]}]
                ELSE st,
                now)

\* _sub_cluster(cluster_id, ...): every [clusters, subs] it can leave behind.
\* The parent is re-read from the registry; a failure of the inner density
\* run is swallowed and leaves the registry as it was.
sub_cluster(cluster_id, articles, h, st, now) ==
    IF \/ cluster_id \notin DOMAIN st.clusters
       \/ Len(st.clusters[cluster_id].article_ids) <= max_cluster_articles
    THEN {st}
    ELSE LET cluster == st.clusters[cluster_id]
             cluster_articles ==
                 SelectSeq(articles,
                           LAMBDA a : h[a].id \in Range(cluster.article_ids))
             members == [i \in 1..Len(cluster_articles) |->
                            h[cluster_articles[i]].id]
             mcs == Max2(2, Len(cluster_articles) \div 5)
         IN {st} \cup
            { SubRegister(cluster, members, l,
                          {l[i] : i \in 1..Len(members)} \ {-1}, st, now) :
              l \in FitPredict(Len(members), mcs) }

\* for cluster_id, article_ids in list(clusters.items()):
\*     if len(article_ids) > self.max_cluster_articles: self._sub_cluster(...)
RECURSIVE SubClusterAll(_, _, _, _, _, _)
SubClusterAll(m, i, articles, h, sts, now) ==
    IF i > Len(m) THEN sts
    ELSE SubClusterAll(m, i + 1, articles, h,
            IF Len(m[i].ids) > max_cluster_articles
            THEN UNION {sub_cluster(m[i].cid, articles, h, st, now) : st \in sts}
            ELSE sts,
            now)

\* effective_min_cluster = min(self.min_cluster_size, max(2, len(articles) // 3))
effective_min_cluster(n) == Min2(min_cluster_size, Max2(2, n \div 3))

\* What the optional libraries do during one cluster_articles call on n
\* articles: whether generate_embeddings returns embeddings; the labels of
\* fit_predict (<<>>: `import hdbscan` or fit_predict raised); whether the
\* TF-IDF vectorizer yields terms; and stop, the number of registry writes
\* after which a later step raises (0: none does).
LibraryRuns(n) ==
    {[embeddings |-> e, labels |-> <<>>, tfidf_ok |-> FALSE, stop |-> 0] :
        e \in BOOLEAN}
    \cup {r \in [embeddings : {TRUE},
                 labels : FitPredict(n, effective_min_cluster(n)),
                 tfidf_ok : BOOLEAN,
                 stop : 0..(MaxLabel + 1)] :
            r.stop < Cardinality(Range(r.labels))}

\* Mutant: when a step raises after the assignment loop, what the density
\* run had assigned is returned.
hdbscan_cluster_keep(articles, h, reg, now, run) ==
    LET as == DensityAssign(articles, run.labels, 1, h, <<>>)
    IN IF run.labels = <<>>
       THEN {[keyword_cluster(articles, h, reg, now) EXCEPT !.path = "fallback"]}
       ELSE {[map |-> as.map, heap |-> as.heap,
              clusters |-> DensityRegister(as.map, 1, run.stop, articles,
                                           as.heap, reg, now, run.tfidf_ok),
              path |-> "fallback", top |-> MapKeys(as.map), subs |-> {}]}

\* _hdbscan_cluster under one library run: every outcome it can have (the
\* inner density runs of _sub_cluster are free). Whatever is raised, the
\* except clauses hand the articles to _keyword_cluster.
hdbscan_cluster(articles, h, reg, now, run) ==
    LET fallback(hh, rr) ==
            [keyword_cluster(articles, hh, rr, now) EXCEPT !.path = "fallback"]
        as == DensityAssign(articles, run.labels, 1, h, <<>>)
        written == DensityRegister(as.map, 1, Len(as.map), articles,
                                   as.heap, reg, now, run.tfidf_ok)
    IN IF run.labels = <<>>
       THEN {fallback(h, reg)}
       ELSE IF run.stop > 0
       THEN {fallback(as.heap,
                      DensityRegister(as.map, 1, run.stop, articles, as.heap,
                                      reg, now, run.tfidf_ok))}
       ELSE { [map |-> as.map, heap |-> as.heap, clusters |-> st.clusters,
               path |-> "density", top |-> MapKeys(as.map),
               subs |-> st.subs] :
              st \in SubClusterAll(as.map, 1, articles, as.heap,
                                   {[clusters |-> written, subs |-> {}]},
                                   now) }

\* Mutant: a call on an empty list starts from a fresh registry.
cluster_articles_reset(articles, h, reg, now, run) ==
    IF articles = <<>>
    THEN {[map |-> <<>>, heap |-> h, clusters |-> << >>, path |-> "empty",
           top |-> {}, subs |-> {}]}
    ELSE IF run.embeddings /\ Len(articles) >= min_cluster_size
    THEN hdbscan_cluster(articles, h, reg, now, run)
    ELSE {keyword_cluster(articles, h, reg, now)}

\* Mutant: the density path is taken whenever there are embeddings.
cluster_articles_any_size(articles, h, reg, now, run) ==
    IF articles = <<>>
    THEN {[map |-> <<>>, heap |-> h, clusters |-> reg, path |-> "empty",
           top |-> {}, subs |-> {}]}
    ELSE IF run.embeddings
    THEN hdbscan_cluster(articles, h, reg, now, run)
    ELSE {keyword_cluster(articles, h, reg, now)}

\* cluster_articles under one library run. The text built per article
\* (title plus 200 words of content) feeds only the embeddings.
cluster_articles(articles, h, reg, now, run) ==
    IF articles = <<>>
    THEN {[map |-> <<>>, heap |-> h, clusters |-> reg, path |-> "empty",
           top |-> {}, subs |-> {}]}
    ELSE IF run.embeddings /\ Len(articles) >= min_cluster_size
    THEN hdbscan_cluster(articles, h, reg, now, run)
    ELSE {keyword_cluster(articles, h, reg, now)}

\* ============================================================ collaborators
\* Article content is a number: 0 is the empty text, c > 0 a text of
\* Words(c) words. Compressed bytes, hashes and summaries are numbers too.
Words(c) ==
    CASE c = 0 -> 0
      [] c = 1 -> 200
      [] c = 2 -> 120
      [] c = 3 -> 300
      [] OTHER -> 50

\* ContentCompressor.compress: b"" for empty content, the zlib stream when
\* it is shorter than the text, else the text's own bytes.
compress(content) ==
    IF content = 0 THEN 0
    ELSE IF Words(content) > 10 THEN 100 + content
    ELSE content

\* ContentCompressor.decompress: "" for no bytes, the inflated text, or the
\* bytes themselves when they are no zlib stream.
decompress(compressed) ==
    IF compressed = 0 THEN 0
    ELSE IF compressed > 100 THEN compressed - 100
    ELSE compressed

\* RawArticle.__post_init__: sha256 of the content.
Hash(content) == 1000 + content

\* Summarizer.summarize: "" for empty content, the content itself when it
\* has at most max_length words, else a (model or extractive) summary.
summarize(content) ==
    IF content = 0 THEN 0
    ELSE IF Words(content) <= max_summary_words THEN content
    ELSE 200 + content

RawArticle(url, title, content, published_date) ==
    [url |-> url, title |-> title, content |-> content,
     published_date |-> published_date, content_hash |-> Hash(content)]

\* What the sources can deliver: two articles, a newer version of the first
\* under the same url, and an article too short to keep.
RawPool ==
    << RawArticle(1, <<"A","I">>, 1, 1),
       RawArticle(2, <<"Z","o","o">>, 2, 2),
       RawArticle(1, <<"V","o","t","e">>, 3, 3),
       RawArticle(3, <<"W","a","r","m","i","n","g">>, 4, 4) >>

\* The feeds are polled in a fixed order, so one fetch delivers a
\* sub-list of the pool, in pool order, of at most MaxRaw articles.
RawLists ==
    LET picks == {s \in SUBSET (1..Len(RawPool)) : Cardinality(s) <= MaxRaw}
        pick(s) == SelectSeq(RawPool,
                       LAMBDA r : \E i \in s : RawPool[i] = r)
    IN {pick(s) : s \in picks}

\* Mutant: a skipped article still marks its hash and url as seen.
RECURSIVE DedupMarkSkipped(_, _, _)
DedupMarkSkipped(articles, seen_hashes, seen_urls) ==
    IF articles = <<>> THEN <<>>
    ELSE LET article == Head(articles)
             rest == DedupMarkSkipped(Tail(articles),
                                      seen_hashes \cup {article.content_hash},
                                      seen_urls \cup {article.url})
         IN IF article.content_hash \in seen_hashes \/ article.url \in seen_urls
            THEN rest
            ELSE <<article>> \o rest

\* ArticleFetcher.deduplicate
RECURSIVE Dedup(_, _, _)
Dedup(articles, seen_hashes, seen_urls) ==
    IF articles = <<>> THEN <<>>
    ELSE LET article == Head(articles)
         IN IF article.content_hash \in seen_hashes \/ article.url \in seen_urls
            THEN Dedup(Tail(articles), seen_hashes, seen_urls)
            ELSE <<article>> \o Dedup(Tail(articles),
                                      seen_hashes \cup {article.content_hash},
                                      seen_urls \cup {article.url})

deduplicate(articles) == Dedup(articles, {}, {})

\* ArticleFetcher.fetch_articles once the sources delivered all_articles.
fetch_articles(all_articles, count) ==
    IF all_articles = <<>>
    THEN [raised |-> TRUE, list |-> <<>>]
    ELSE LET filtered == SelectSeq(all_articles,
                             LAMBDA a : Words(a.content) >= min_content_words)
             unique == deduplicate(filtered)
         IN [raised |-> FALSE,
             list |-> SubSeq(unique, 1, Min2(count, Len(unique)))]

\* ------------------------------------------------------------------ store
\* The smallest unused object id.
NewOid(h) ==
    CHOOSE o \in 1..(Cardinality(DOMAIN h) + 1) :
        o \notin DOMAIN h /\ \A p \in 1..(o - 1) : p \in DOMAIN h

\* article.content_hash or ""  (0 stands for the empty string)
HashOrEmpty(content_hash) == IF content_hash = None THEN 0 ELSE content_hash

\* ArticleStore._to_document
to_document(article) ==
    [article EXCEPT !.content_hash = HashOrEmpty(article.content_hash)]

\* ArticleStore._to_article
to_article(doc) ==
    Article(doc.id, doc.url, doc.title, doc.compressed_content, doc.summary,
            doc.published_date, doc.cluster_id, doc.content_hash)

\* Mutant: an id already in the dict keeps its article.
MemPutKeepFirst(mem, id, oid) ==
    IF \E i \in 1..Len(mem) : mem[i].id = id
    THEN mem
    ELSE Append(mem, [id |-> id, oid |-> oid])

\* self._memory_articles[article.id] = article
MemPut(mem, id, oid) ==
    IF \E i \in 1..Len(mem) : mem[i].id = id
    THEN [i \in 1..Len(mem) |->
             IF mem[i].id = id THEN [id |-> id, oid |-> oid] ELSE mem[i]]
    ELSE Append(mem, [id |-> id, oid |-> oid])

\* ArticleStore.save_article for an article that has an id. In MongoDB mode
\* the first document with the same url or content hash is overwritten,
\* else a document is inserted; when the database raises (db_ok false) or
\* is not used, the object itself goes into the in-memory dict.
save_article(h, mem, dbs, usedb, oid, db_ok) ==
    LET article == h[oid]
        hits == {i \in 1..Len(dbs) :
                    \/ dbs[i].url = article.url
                    \/ dbs[i].content_hash = HashOrEmpty(article.content_hash)}
        existing == CHOOSE i \in hits : \A j \in hits : i <= j
    IN IF usedb /\ db_ok
       THEN [mem |-> mem,
             db |-> IF hits # {}
                    THEN [dbs EXCEPT ![existing] = to_document(article)]
                    ELSE Append(dbs, to_document(article))]
       ELSE [mem |-> MemPut(mem, article.id, oid), db |-> dbs]

\* What a caller of get_article sees when the id is unknown.
ArticleNotFoundError == [raised |-> "ArticleNotFoundError"]

\* ArticleStore.get_article: the document with this id in MongoDB mode, else
\* the object in the in-memory dict, else ArticleNotFoundError.
get_article(h, mem, dbs, usedb, article_id) ==
    LET docs == {i \in 1..Len(dbs) : dbs[i].id = article_id}
        held == {i \in 1..Len(mem) : mem[i].id = article_id}
    IN IF usedb /\ docs # {}
       THEN to_article(dbs[CHOOSE i \in docs : \A j \in docs : i <= j])
       ELSE IF held # {}
       THEN h[mem[CHOOSE i \in held : TRUE].oid]
       ELSE ArticleNotFoundError

\* ArticleStore.count_articles: the documents in MongoDB mode, else (or when
\* the database raises) the entries of the in-memory dict.
count_articles(mem, dbs, usedb, db_ok) ==
    IF usedb /\ db_ok THEN Len(dbs) ELSE Len(mem)

\* ArticleStore.archive_old_articles with cutoff = now - days: delete_many in
\* MongoDB mode (a failure is logged and nothing archived), else the
\* entries older than the cutoff leave the dict; [mem, db, archived].
archive_old_articles(h, mem, dbs, usedb, cutoff, db_ok) ==
    LET docs == SelectSeq(dbs, LAMBDA d : ~(d.published_date < cutoff))
        kept == SelectSeq(mem, LAMBDA e : ~(h[e.oid].published_date < cutoff))
    IN IF usedb
       THEN [mem |-> mem,
             db |-> IF db_ok THEN docs ELSE dbs,
             archived |-> IF db_ok THEN Len(dbs) - Len(docs) ELSE 0]
       ELSE [mem |-> kept, db |-> dbs, archived |-> Len(mem) - Len(kept)]

\* sort("published_date", -1): newest first, ties in natural order.
RECURSIVE SortNewestFirst(_)
SortNewestFirst(docs) ==
    IF docs = <<>> THEN <<>>
    ELSE LET newest == CHOOSE i \in 1..Len(docs) :
                 /\ \A j \in 1..Len(docs) :
                        docs[j].published_date <= docs[i].published_date
                 /\ \A j \in 1..(i - 1) :
                        docs[j].published_date < docs[i].published_date
         IN <<docs[newest]>> \o
            SortNewestFirst(SubSeq(docs, 1, newest - 1)
                            \o SubSeq(docs, newest + 1, Len(docs)))

\* New Article objects for a list of documents: [heap, list].
RECURSIVE Materialize(_, _, _)
Materialize(docs, h, list) ==
    IF docs = <<>> THEN [heap |-> h, list |-> list]
    ELSE LET oid == NewOid(h)
         IN Materialize(Tail(docs), (oid :> to_article(Head(docs))) @@ h,
                        Append(list, oid))

\* ArticleStore.get_all_articles: the documents as new objects in MongoDB
\* mode, else (or when the database raises) the stored objects themselves.
get_all_articles(h, mem, dbs, usedb, db_ok) ==
    IF usedb /\ db_ok
    THEN Materialize(SortNewestFirst(dbs), h, <<>>)
    ELSE [heap |-> h, list |-> [i \in 1..Len(mem) |-> mem[i].oid]]

\* ArticleStore.query_articles with no filter, on the first page: the
\* documents newest first in MongoDB mode, else (or when the database
\* raises) the in-memory articles newest first; [articles, total].
query_articles(h, mem, dbs, usedb, db_ok) ==
    LET found == IF usedb /\ db_ok
                 THEN [i \in 1..Len(dbs) |-> to_article(dbs[i])]
                 ELSE [i \in 1..Len(mem) |-> h[mem[i].oid]]
    IN [articles |-> SortNewestFirst(found), total |-> Len(found)]

\* ------------------------------------------------------------------ cache
\* A CacheManager: the Redis database (when one is configured), the
\* in-memory dict, and _redis_available ("None" until the first call).
NewCache(configured) ==
    [configured |-> configured, available |-> "None",
     redis |-> << >>, memory |-> << >>]

\* cache.get found nothing.
Miss == [miss |-> TRUE]

\* What Redis can answer to one cache call: "ok", "down" (the ping of
\* _get_redis_client fails) or "error" (the command itself raises). Without
\* a reachable Redis every ping fails; a failing Redis counts as a fault.
Replies(c, f) ==
    IF ~c.configured \/ c.available = "False" THEN {"down"}
    ELSE IF f < MaxFaults THEN {"ok", "down", "error"}
    ELSE {"ok"}

Cost(c, r) == IF c.configured /\ c.available # "False" /\ r # "ok" THEN 1 ELSE 0

\* CacheManager._get_redis: no client once Redis was found unavailable.
get_redis(c, r) ==
    IF c.available = "False" THEN [cache |-> c, client |-> FALSE]
    ELSE [cache |-> [c EXCEPT !.available = IF r = "down" THEN "False" ELSE "True"],
          client |-> r # "down"]

\* A cache entry: the value, and the time at which it expires (in the
\* in-memory dict the tuple (value, expiry), in Redis the key's time to live).
Entry(value, expiry) == [value |-> value, expiry |-> expiry]

\* del d[key]
MapDrop(m, key) == [k \in DOMAIN m \ {key} |-> m[k]]

\* Mutant: an in-memory entry is dropped as soon as its expiry is reached.
memory_lookup_eager(c, key, now) ==
    IF key \notin DOMAIN c.memory THEN [cache |-> c, value |-> Miss]
    ELSE IF now >= c.memory[key].expiry
    THEN [cache |-> [c EXCEPT !.memory = MapDrop(@, key)], value |-> Miss]
    ELSE [cache |-> c, value |-> c.memory[key].value]

\* The in-memory part of CacheManager.get: an entry is deleted, and nothing
\* returned, when datetime.now() > expiry.
memory_lookup(c, key, now) ==
    IF key \notin DOMAIN c.memory THEN [cache |-> c, value |-> Miss]
    ELSE IF now > c.memory[key].expiry
    THEN [cache |-> [c EXCEPT !.memory = MapDrop(@, key)], value |-> Miss]
    ELSE [cache |-> c, value |-> c.memory[key].value]

\* The keys Redis holds at a time: a key is gone when its time to live is
\* over.
RedisKeys(c, now) == {k \in DOMAIN c.redis : now < c.redis[k].expiry}

\* CacheManager.get: Redis answers (a value or nothing), or, without a
\* client or when Redis raises, the in-memory dict does. Nothing found is
\* None, which Miss stands for.
cache_get(c, key, r, now) ==
    LET g == get_redis(c, r)
    IN IF g.client /\ r = "ok"
       THEN [cache |-> g.cache,
             value |-> IF key \in RedisKeys(g.cache, now)
                       THEN g.cache.redis[key].value ELSE Miss]
       ELSE memory_lookup(g.cache, key, now)

\* CacheManager.set: into Redis with setex (which raises for a ttl that is
\* not positive), or, without a client or when Redis raises, into the
\* in-memory dict with expiry = datetime.now() + ttl.
cache_set(c, key, value, ttl, r, now) ==
    LET g == get_redis(c, r)
    IN IF g.client /\ r = "ok" /\ ttl > 0
       THEN [g.cache EXCEPT !.redis = (key :> Entry(value, now + ttl)) @@ @]
       ELSE [g.cache EXCEPT !.memory = (key :> Entry(value, now + ttl)) @@ @]

\* CacheManager.delete: the key is deleted in Redis when there is a client
\* (a failure is only logged), then in the in-memory dict.
cache_delete(c, key, r) ==
    LET g == get_redis(c, r)
    IN IF g.client /\ r = "ok"
       THEN [g.cache EXCEPT !.redis = MapDrop(@, key),
                            !.memory = MapDrop(@, key)]
       ELSE [g.cache EXCEPT !.memory = MapDrop(@, key)]

\* CacheManager.get_or_compute, compute_fn returning fvalue: [cache, value,
\* invoked]. r and rs are the answers of Redis to the get and to the set.
get_or_compute(c, key, fvalue, ttl, r, rs, now) ==
    LET got == cache_get(c, key, r, now)
    IN IF got.value # Miss
       THEN [cache |-> got.cache, value |-> got.value, invoked |-> FALSE]
       ELSE [cache |-> cache_set(got.cache, key, fvalue, ttl, rs, now),
             value |-> fvalue, invoked |-> TRUE]

\* CacheManager.clear: flushdb when there is a client (a failure is only
\* logged), then the in-memory dict is cleared.
cache_clear(c, r) ==
    LET g == get_redis(c, r)
    IN IF g.client /\ r = "ok"
       THEN [g.cache EXCEPT !.redis = << >>, !.memory = << >>]
       ELSE [g.cache EXCEPT !.memory = << >>]

\* CacheManager.size: dbsize of Redis, else the length of the dict.
cache_size(c, r, now) ==
    LET g == get_redis(c, r)
    IN [cache |-> g.cache,
        value |-> IF g.client /\ r = "ok"
                  THEN Cardinality(RedisKeys(g.cache, now))
                  ELSE Cardinality(DOMAIN g.cache.memory)]

\* The keys of GET /clusters and of GET /articles without parameters.
Keys == {"clusters:all", "query"}

\* The ttl the handlers give cache.set for their responses, in seconds.
CLUSTERS_TTL == 1800
ARTICLES_TTL == 900

ResponseTtl(key) == IF key = "query" THEN ARTICLES_TTL ELSE CLUSTERS_TTL

\* ================================================================= state
VARIABLES
    heap,            \* object id -> Article fields (Python objects)
    clusters,        \* TopicClusterer.clusters: cluster id -> Cluster
    clock,           \* datetime.now(), as a counter
    calls,           \* direct cluster_articles calls made so far
    budget,          \* articles still to be handed to direct calls
    last,            \* input and result of the latest cluster_articles call
    use_db,          \* ArticleStore._use_db
    memory_articles, \* ArticleStore._memory_articles: [id, oid] in dict order
    db,              \* the MongoDB "articles" collection, in natural order
    next_id,         \* stands for uuid.uuid4(): the next unused article id
    pc,              \* where the current process_articles run stands
    raw_articles,    \* the list fetch_articles returned
    idx,             \* position of the running loop in its list
    stored_articles, \* object ids of the articles stored by this run
    all_articles,    \* object ids get_all_articles returned to this run
    results,         \* the report under construction
    outcome,         \* how the run ended: "none", "report" or "exception"
    log,             \* the collaborator calls of this run, in order
    runs,            \* runs of process_articles completed
    faults,          \* collaborator failures injected so far
    cache,           \* the CacheManager of the pipeline
    reader,          \* the read handler in progress, if any
    call,            \* a component called on its own: operation, arguments, result
    shadow           \* what the calls made so far entitle the caller to expect

clusterer_vars == <<heap, clusters, clock, calls, budget, last>>

store_vars == <<use_db, memory_articles, db, next_id>>

run_vars == <<pc, raw_articles, idx, stored_articles, all_articles, results,
              outcome, log, runs, faults>>

vars == <<heap, clusters, clock, calls, budget, last, use_db,
          memory_articles, db, next_id, pc, raw_articles, idx,
          stored_articles, all_articles, results, outcome, log, runs, faults,
          cache, reader, call, shadow>>

serve_vars == <<cache, reader>>

unit_vars == <<call, shadow>>

NoCall == [articles |-> <<>>, map |-> <<>>, path |-> "none", top |-> {},
           subs |-> {}, embeddings |-> FALSE, labels |-> <<>>]

NoResults == [fetched |-> 0, stored |-> 0, summarized |-> 0, clustered |-> 0,
              errors |-> <<>>]

\* No request is being answered; reads counts the requests answered.
IdleReader(reads) == [pc |-> "idle", key |-> "", resp |-> Miss, reads |-> reads]

\* No component is being called on its own.
NoUnit ==
    /\ call = [op |-> "none"]
    /\ shadow = << >>

\* A deployment without Redis and no request in progress.
NoRedis ==
    /\ cache = NewCache(FALSE)
    /\ reader = IdleReader(0)

\* The state of a Pipeline just built, between runs.
IdleRun ==
    /\ pc = "idle"
    /\ raw_articles = <<>>
    /\ idx = 0
    /\ stored_articles = <<>>
    /\ all_articles = <<>>
    /\ results = NoResults
    /\ outcome = "none"
    /\ log = <<>>

EmptyStore ==
    /\ memory_articles = <<>>
    /\ db = <<>>
    /\ next_id = 1

\* ============================================ direct clustering (the tests)
TitleSeq == <<<<"A","I">>, <<"W","a","r","m","i","n","g">>,
              <<"V","o","t","e">>, <<"Z","o","o">>>>

\* The articles of the clustering tests (_make_article): distinct ids and
\* urls, empty content, no summary, no cluster yet.
PoolArticle(i) ==
    Article(i, i, TitleSeq[((i - 1) % Len(TitleSeq)) + 1], 0, None, i, None, None)

InitCluster ==
    /\ heap = [i \in 1..MaxArticles |-> PoolArticle(i)]
    /\ clusters = << >>
    /\ clock = 0
    /\ calls = 0
    /\ budget = MaxArticles
    /\ last = NoCall
    /\ use_db = FALSE
    /\ EmptyStore
    /\ IdleRun
    /\ runs = 0
    /\ faults = 0
    /\ NoRedis
    /\ NoUnit

\* One direct call clusterer.cluster_articles(articles) on the first n
\* articles of the pool (n = 0: the empty list).
ClusterArticles ==
    /\ calls < MaxCalls
    /\ \E n \in 0..budget :
         LET articles == [i \in 1..n |-> i]
         IN \E run \in LibraryRuns(n) :
            \E out \in cluster_articles(articles, heap, clusters, clock + 1,
                                        run) :
              /\ heap' = out.heap
              /\ clusters' = out.clusters
              /\ last' = [articles |-> articles, map |-> out.map,
                          path |-> out.path, top |-> out.top,
                          subs |-> out.subs,
                          embeddings |-> out.path # "empty" /\ run.embeddings,
                          labels |-> IF out.path = "density"
                                     THEN run.labels ELSE <<>>]
              /\ budget' = budget - n
    /\ clock' = clock + 1
    /\ calls' = calls + 1
    /\ UNCHANGED <<store_vars, run_vars>>
    /\ UNCHANGED serve_vars
    /\ UNCHANGED unit_vars

NextCluster == ClusterArticles

SpecCluster == InitCluster /\ [][NextCluster]_vars

\* ------------------------------------------- one large batch, split in two
\* fit_predict finds two topics in a batch of n articles: the first k
\* articles and the others.
TwoTopics(n, k) == [i \in 1..n |-> IF i <= k THEN 0 ELSE 1]

InitSplit ==
    /\ heap = [i \in 1..SplitSize |-> PoolArticle(i)]
    /\ clusters = << >>
    /\ clock = 0
    /\ calls = 0
    /\ budget = SplitSize
    /\ last = NoCall
    /\ use_db = FALSE
    /\ EmptyStore
    /\ IdleRun
    /\ runs = 0
    /\ faults = 0
    /\ NoRedis
    /\ NoUnit

\* One direct call clusterer.cluster_articles(articles) on the whole batch,
\* in which the embeddings are there and the outer density run finds two
\* topics; the inner density runs of _sub_cluster are free.
ClusterBatch ==
    /\ calls < MaxCalls
    /\ budget = SplitSize
    /\ LET n == SplitSize
           articles == [i \in 1..n |-> i]
       IN \E k \in effective_min_cluster(n)..(n - effective_min_cluster(n)),
             tfidf_ok \in BOOLEAN :
            \E out \in cluster_articles(articles, heap, clusters, clock + 1,
                          [embeddings |-> TRUE, labels |-> TwoTopics(n, k),
                           tfidf_ok |-> tfidf_ok, stop |-> 0]) :
              /\ heap' = out.heap
              /\ clusters' = out.clusters
              /\ last' = [articles |-> articles, map |-> out.map,
                          path |-> out.path, top |-> out.top,
                          subs |-> out.subs,
                          embeddings |-> TRUE,
                          labels |-> IF out.path = "density"
                                     THEN TwoTopics(n, k) ELSE <<>>]
    /\ budget' = 0
    /\ clock' = clock + 1
    /\ calls' = calls + 1
    /\ UNCHANGED <<store_vars, run_vars>>
    /\ UNCHANGED serve_vars
    /\ UNCHANGED unit_vars

NextSplit == ClusterBatch

SpecSplit == InitSplit /\ [][NextSplit]_vars

\* ================================================== Pipeline.process_articles
\* An entry of results["errors"]: f"{stage}: {title} - {reason}", and
\* f"{stage}: {reason}" (no title) for the stage-level entries.
Err(stage, title, reason) == [stage |-> stage, title |-> title, reason |-> reason]

\* One collaborator call, as recorded in the run's log.
Ev(stage, item, ok, id) == [stage |-> stage, item |-> item, ok |-> ok, id |-> id]

AddError(res, e) == [res EXCEPT !.errors = Append(@, e)]

\* `return results`: the caller gets the report.
ReturnResults(res) == [results |-> res, outcome |-> "report"]

\* Mutant: the outer handler lets the exception escape to the caller.
TopLevelReraise(res, reason) == [results |-> res, outcome |-> "exception"]

\* The outer `except Exception`: the error is recorded and the report returned.
TopLevelExcept(res, reason) ==
    ReturnResults(AddError(res, Err("Pipeline", <<>>, reason)))

\* Pipeline._process_raw_article
process_raw_article(raw, id) ==
    Article(id, raw.url, raw.title, compress(raw.content), None,
            raw.published_date, None, raw.content_hash)

\* Mutant: an article is summarized as soon as one has been stored.
AfterPersistEager(i, n, stored) ==
    IF stored > 0 THEN [pc |-> "summarize", idx |-> 1]
    ELSE IF i < n THEN [pc |-> "persist", idx |-> i + 1]
    ELSE [pc |-> "cluster", idx |-> 0]

\* The loop `for raw in raw_articles` moves on; after its last item the
\* summarize loop starts (or, with nothing stored, the cluster stage).
AfterPersist(i, n, stored) ==
    IF i < n THEN [pc |-> "persist", idx |-> i + 1]
    ELSE IF stored > 0 THEN [pc |-> "summarize", idx |-> 1]
    ELSE [pc |-> "cluster", idx |-> 0]

\* The loop `for article in stored_articles` moves on, then the cluster stage.
AfterSummarize(i, n) ==
    IF i < n THEN [pc |-> "summarize", idx |-> i + 1]
    ELSE [pc |-> "cluster", idx |-> 0]

\* Mutant: the run returns after the update loop without clearing the cache.
AfterAssignNoClear(i, n) ==
    IF i < n THEN [pc |-> "assign", idx |-> i + 1]
    ELSE [pc |-> "done", idx |-> 0]

\* The loop `for article in all_articles` moves on, then cache invalidation.
AfterAssign(i, n) ==
    IF i < n THEN [pc |-> "assign", idx |-> i + 1]
    ELSE [pc |-> "invalidate", idx |-> 0]

InitPipeline ==
    /\ heap = << >>
    /\ clusters = << >>
    /\ clock = 0
    /\ calls = 0
    /\ budget = 0
    /\ last = NoCall
    /\ use_db \in BOOLEAN
    /\ EmptyStore
    /\ IdleRun
    /\ runs = 0
    /\ faults = 0
    /\ NoRedis
    /\ NoUnit

\* Mutant: an empty fetch does not return early but runs on to step 4.
AfterFetchNoEarlyReturn(f) ==
    LET res == [NoResults EXCEPT !.fetched = Len(f.list)]
    IN IF f.raised
       THEN [results |-> TopLevelExcept(NoResults, "FetchError").results,
             outcome |-> TopLevelExcept(NoResults, "FetchError").outcome,
             ok |-> FALSE, pc |-> "done", idx |-> 0]
       ELSE IF f.list = <<>>
       THEN [results |-> res, outcome |-> "none",
             ok |-> TRUE, pc |-> "cluster", idx |-> 0]
       ELSE [results |-> res, outcome |-> "none",
             ok |-> TRUE, pc |-> "persist", idx |-> 1]

\* Step 1 once fetch_articles has answered: a FetchError goes to the outer
\* except clause, an empty list returns the report at once, anything else
\* enters the persist loop.
AfterFetch(f) ==
    LET res == [NoResults EXCEPT !.fetched = Len(f.list)]
    IN IF f.raised
       THEN [results |-> TopLevelExcept(NoResults, "FetchError").results,
             outcome |-> TopLevelExcept(NoResults, "FetchError").outcome,
             ok |-> FALSE, pc |-> "done", idx |-> 0]
       ELSE IF f.list = <<>>
       THEN [results |-> ReturnResults(res).results,
             outcome |-> ReturnResults(res).outcome,
             ok |-> TRUE, pc |-> "done", idx |-> 0]
       ELSE [results |-> res, outcome |-> "none",
             ok |-> TRUE, pc |-> "persist", idx |-> 1]

\* process_articles(count) up to the end of step 1: the report is created
\* and the fetcher called.
Fetch ==
    /\ pc = "idle"
    /\ runs < MaxRuns
    /\ \E all \in RawLists, count \in 0..MaxRaw :
         LET f == fetch_articles(all, count)
             nxt == AfterFetch(f)
         IN /\ results' = nxt.results
            /\ outcome' = nxt.outcome
            /\ log' = <<Ev("fetch", 0, nxt.ok, 0)>>
            /\ pc' = nxt.pc
            /\ idx' = nxt.idx
            /\ raw_articles' = f.list
    /\ stored_articles' = <<>>
    /\ all_articles' = <<>>
    /\ UNCHANGED <<clusterer_vars, store_vars, runs, faults>>
    /\ UNCHANGED serve_vars
    /\ UNCHANGED unit_vars

\* Mutant: the first failing item ends the persist loop.
PersistFailsEndsLoop ==
    /\ pc = "persist"
    /\ faults < MaxFaults
    /\ LET raw == raw_articles[idx]
           nxt == AfterPersist(Len(raw_articles), Len(raw_articles),
                               Len(stored_articles))
       IN /\ \E reason \in {"compress failed", "save failed"} :
                results' = AddError(results, Err("Store", raw.title, reason))
          /\ log' = Append(log, Ev("persist", idx, FALSE, 0))
          /\ pc' = nxt.pc
          /\ idx' = nxt.idx
    /\ faults' = faults + 1
    /\ UNCHANGED <<clusterer_vars, store_vars, raw_articles, stored_articles,
                   all_articles, outcome, runs>>
    /\ UNCHANGED serve_vars
    /\ UNCHANGED unit_vars

\* Step 2, one item: compress or save raises; the failure is recorded for
\* the item and the loop moves on.
PersistFails ==
    /\ pc = "persist"
    /\ faults < MaxFaults
    /\ LET raw == raw_articles[idx]
           nxt == AfterPersist(idx, Len(raw_articles), Len(stored_articles))
       IN /\ \E reason \in {"compress failed", "save failed"} :
                results' = AddError(results, Err("Store", raw.title, reason))
          /\ log' = Append(log, Ev("persist", idx, FALSE, 0))
          /\ pc' = nxt.pc
          /\ idx' = nxt.idx
    /\ faults' = faults + 1
    /\ UNCHANGED <<clusterer_vars, store_vars, raw_articles, stored_articles,
                   all_articles, outcome, runs>>
    /\ UNCHANGED serve_vars
    /\ UNCHANGED unit_vars

PersistOk ==
    /\ pc = "persist"
    /\ \E db_ok \in BOOLEAN :
         /\ (~db_ok => use_db /\ faults < MaxFaults)
         /\ LET raw == raw_articles[idx]
                oid == NewOid(heap)
                h == (oid :> process_raw_article(raw, next_id)) @@ heap
                st == save_article(h, memory_articles, db, use_db, oid, db_ok)
                nxt == AfterPersist(idx, Len(raw_articles),
                                    Len(stored_articles) + 1)
            IN /\ heap' = h
               /\ memory_articles' = st.mem
               /\ db' = st.db
               /\ stored_articles' = Append(stored_articles, oid)
               /\ results' = [results EXCEPT !.stored = @ + 1]
               /\ log' = Append(log, Ev("persist", idx, TRUE, next_id))
               /\ pc' = nxt.pc
               /\ idx' = nxt.idx
         /\ faults' = IF db_ok THEN faults ELSE faults + 1
    /\ next_id' = next_id + 1
    /\ UNCHANGED <<clusters, clock, calls, budget, last, use_db, raw_articles,
                   all_articles, outcome, runs>>
    /\ UNCHANGED serve_vars
    /\ UNCHANGED unit_vars

\* Step 3, one item: decompress or summarize raises before the article is
\* touched.
SummarizeFails ==
    /\ pc = "summarize"
    /\ faults < MaxFaults
    /\ LET article == stored_articles[idx]
           nxt == AfterSummarize(idx, Len(stored_articles))
       IN /\ \E reason \in {"decompress failed", "summarize failed"} :
                results' = AddError(results,
                               Err("Summary", heap[article].title, reason))
          /\ log' = Append(log, Ev("summarize", idx, FALSE, heap[article].id))
          /\ pc' = nxt.pc
          /\ idx' = nxt.idx
    /\ faults' = faults + 1
    /\ UNCHANGED <<clusterer_vars, store_vars, raw_articles, stored_articles,
                   all_articles, outcome, runs>>
    /\ UNCHANGED serve_vars
    /\ UNCHANGED unit_vars

\* Mutant: the item whose save raises is counted as summarized all the same.
SummarizeSaveFailsCounted ==
    /\ pc = "summarize"
    /\ faults < MaxFaults
    /\ LET article == stored_articles[idx]
           content == decompress(heap[article].compressed_content)
           nxt == AfterSummarize(idx, Len(stored_articles))
       IN /\ heap' = [heap EXCEPT ![article].summary = summarize(content)]
          /\ results' = [AddError(results,
                            Err("Summary", heap[article].title, "save failed"))
                            EXCEPT !.summarized = @ + 1]
          /\ log' = Append(log, Ev("summarize", idx, FALSE, heap[article].id))
          /\ pc' = nxt.pc
          /\ idx' = nxt.idx
    /\ faults' = faults + 1
    /\ UNCHANGED <<clusters, clock, calls, budget, last, store_vars,
                   raw_articles, stored_articles, all_articles, outcome, runs>>
    /\ UNCHANGED serve_vars
    /\ UNCHANGED unit_vars

\* Step 3, one item: article.summary is assigned, then save_article raises.
SummarizeSaveFails ==
    /\ pc = "summarize"
    /\ faults < MaxFaults
    /\ LET article == stored_articles[idx]
           content == decompress(heap[article].compressed_content)
           nxt == AfterSummarize(idx, Len(stored_articles))
       IN /\ heap' = [heap EXCEPT ![article].summary = summarize(content)]
          /\ results' = AddError(results,
                            Err("Summary", heap[article].title, "save failed"))
          /\ log' = Append(log, Ev("summarize", idx, FALSE, heap[article].id))
          /\ pc' = nxt.pc
          /\ idx' = nxt.idx
    /\ faults' = faults + 1
    /\ UNCHANGED <<clusters, clock, calls, budget, last, store_vars,
                   raw_articles, stored_articles, all_articles, outcome, runs>>
    /\ UNCHANGED serve_vars
    /\ UNCHANGED unit_vars

SummarizeOk ==
    /\ pc = "summarize"
    /\ \E db_ok \in BOOLEAN :
         /\ (~db_ok => use_db /\ faults < MaxFaults)
         /\ LET article == stored_articles[idx]
                content == decompress(heap[article].compressed_content)
                h == [heap EXCEPT ![article].summary = summarize(content)]
                st == save_article(h, memory_articles, db, use_db, article, db_ok)
                nxt == AfterSummarize(idx, Len(stored_articles))
            IN /\ heap' = h
               /\ memory_articles' = st.mem
               /\ db' = st.db
               /\ results' = [results EXCEPT !.summarized = @ + 1]
               /\ log' = Append(log, Ev("summarize", idx, TRUE, heap[article].id))
               /\ pc' = nxt.pc
               /\ idx' = nxt.idx
         /\ faults' = IF db_ok THEN faults ELSE faults + 1
    /\ UNCHANGED <<clusters, clock, calls, budget, last, use_db, next_id,
                   raw_articles, stored_articles, all_articles, outcome, runs>>
    /\ UNCHANGED serve_vars
    /\ UNCHANGED unit_vars

\* Step 4: get_all_articles or cluster_articles raises; the stage's except
\* clause records it and the run goes on to step 5.
ClusterFails ==
    /\ pc = "cluster"
    /\ faults < MaxFaults
    /\ \E reason \in {"get_all_articles failed", "cluster_articles failed"} :
         results' = AddError(results, Err("Clustering", <<>>, reason))
    /\ log' = Append(log, Ev("cluster", 0, FALSE, 0))
    /\ pc' = "invalidate"
    /\ faults' = faults + 1
    /\ UNCHANGED <<clusterer_vars, store_vars, raw_articles, idx,
                   stored_articles, all_articles, outcome, runs>>
    /\ UNCHANGED serve_vars
    /\ UNCHANGED unit_vars

\* Step 4: the whole store is read and clustered; clustered is set from the
\* returned map before the assignments are saved.
ClusterOk ==
    /\ pc = "cluster"
    /\ \E db_ok \in BOOLEAN :
         /\ (~db_ok => use_db /\ faults < MaxFaults)
         /\ faults' = IF db_ok THEN faults ELSE faults + 1
         /\ LET g == get_all_articles(heap, memory_articles, db, use_db, db_ok)
            IN IF g.list = <<>>
               THEN /\ pc' = "invalidate"
                    /\ idx' = 0
                    /\ log' = Append(log, Ev("cluster", 0, TRUE, 0))
                    /\ UNCHANGED <<heap, clusters, clock, last, all_articles,
                                   results>>
               ELSE \E run \in LibraryRuns(Len(g.list)) :
                    \E out \in cluster_articles(g.list, g.heap, clusters,
                                                clock + 1, run) :
                      /\ heap' = out.heap
                      /\ clusters' = out.clusters
                      /\ clock' = clock + 1
                      /\ last' = [articles |-> g.list, map |-> out.map,
                                  path |-> out.path, top |-> out.top,
                                  subs |-> out.subs,
                          embeddings |-> out.path # "empty" /\ run.embeddings,
                          labels |-> IF out.path = "density"
                                     THEN run.labels ELSE <<>>]
                      /\ all_articles' = g.list
                      /\ results' = [results EXCEPT !.clustered = Len(out.map)]
                      /\ log' = Append(log, Ev("cluster", 0, TRUE, 0))
                      /\ pc' = "assign"
                      /\ idx' = 1
    /\ UNCHANGED <<calls, budget, store_vars, raw_articles, stored_articles,
                   outcome, runs>>
    /\ UNCHANGED serve_vars
    /\ UNCHANGED unit_vars

\* Step 4, one article of the update loop: save_article raises and the
\* stage's except clause ends the stage.
AssignFails ==
    /\ pc = "assign"
    /\ faults < MaxFaults
    /\ heap[all_articles[idx]].cluster_id # None
    /\ results' = AddError(results, Err("Clustering", <<>>, "save failed"))
    /\ log' = Append(log, Ev("cluster", idx, FALSE, heap[all_articles[idx]].id))
    /\ pc' = "invalidate"
    /\ idx' = 0
    /\ faults' = faults + 1
    /\ UNCHANGED <<clusterer_vars, store_vars, raw_articles, stored_articles,
                   all_articles, outcome, runs>>
    /\ UNCHANGED serve_vars
    /\ UNCHANGED unit_vars

AssignOk ==
    /\ pc = "assign"
    /\ \E db_ok \in BOOLEAN :
         /\ (~db_ok => use_db /\ faults < MaxFaults)
         /\ faults' = IF db_ok THEN faults ELSE faults + 1
         /\ LET article == all_articles[idx]
                st == IF heap[article].cluster_id # None
                      THEN save_article(heap, memory_articles, db, use_db,
                                        article, db_ok)
                      ELSE [mem |-> memory_articles, db |-> db]
                nxt == AfterAssign(idx, Len(all_articles))
            IN /\ memory_articles' = st.mem
               /\ db' = st.db
               /\ log' = Append(log, Ev("cluster", idx, TRUE, heap[article].id))
               /\ pc' = nxt.pc
               /\ idx' = nxt.idx
    /\ UNCHANGED <<clusterer_vars, use_db, next_id, raw_articles,
                   stored_articles, all_articles, results, outcome, runs>>
    /\ UNCHANGED serve_vars
    /\ UNCHANGED unit_vars

\* Step 5: cache.clear(); if it raises, the outer except clause records it.
InvalidateFails ==
    /\ pc = "invalidate"
    /\ faults < MaxFaults
    /\ results' = TopLevelExcept(results, "cache clear failed").results
    /\ outcome' = TopLevelExcept(results, "cache clear failed").outcome
    /\ log' = Append(log, Ev("invalidate", 0, FALSE, 0))
    /\ pc' = "done"
    /\ faults' = faults + 1
    /\ UNCHANGED <<clusterer_vars, store_vars, raw_articles, idx,
                   stored_articles, all_articles, runs>>
    /\ UNCHANGED serve_vars
    /\ UNCHANGED unit_vars

\* Step 5: cache.clear() returns (a Redis failure inside it is swallowed).
InvalidateOk ==
    /\ pc = "invalidate"
    /\ \E r \in Replies(cache, faults) :
         /\ cache' = cache_clear(cache, r)
         /\ faults' = faults + Cost(cache, r)
    /\ results' = ReturnResults(results).results
    /\ outcome' = ReturnResults(results).outcome
    /\ log' = Append(log, Ev("invalidate", 0, TRUE, 0))
    /\ pc' = "done"
    /\ UNCHANGED <<clusterer_vars, store_vars, raw_articles, idx,
                   stored_articles, all_articles, runs, reader>>
    /\ UNCHANGED unit_vars

\* The caller has the report; the run's locals are dropped, and with them
\* every Article object nothing refers to any more.
Return ==
    /\ pc = "done"
    /\ pc' = "idle"
    /\ raw_articles' = <<>>
    /\ idx' = 0
    /\ stored_articles' = <<>>
    /\ all_articles' = <<>>
    /\ results' = NoResults
    /\ outcome' = "none"
    /\ log' = <<>>
    /\ runs' = runs + 1
    /\ heap' = [o \in {memory_articles[i].oid : i \in 1..Len(memory_articles)}
                    |-> heap[o]]
    /\ last' = NoCall
    /\ UNCHANGED <<clusters, clock, calls, budget, store_vars, faults>>
    /\ UNCHANGED serve_vars
    /\ UNCHANGED unit_vars

NextPipeline ==
    \/ Fetch
    \/ PersistFails
    \/ PersistOk
    \/ SummarizeFails
    \/ SummarizeSaveFails
    \/ SummarizeOk
    \/ ClusterFails
    \/ ClusterOk
    \/ AssignFails
    \/ AssignOk
    \/ InvalidateFails
    \/ InvalidateOk
    \/ Return

SpecPipeline == InitPipeline /\ [][NextPipeline]_vars

\* ------------------------------------------ two invocations on one Pipeline
\* process_articles is a coroutine and takes no lock: the task created at
\* startup (task 1) and the handler of POST /articles/fetch (task 2) call it
\* on the same Pipeline, in one event loop. The variables of the run are the
\* locals of the coroutine that is running; call holds the other one.
Frame(task, f_pc, f_raw, f_idx, f_stored, f_all, f_results, f_outcome, f_log) ==
    [op |-> "parked", task |-> task, pc |-> f_pc, raw_articles |-> f_raw,
     idx |-> f_idx, stored_articles |-> f_stored, all_articles |-> f_all,
     results |-> f_results, outcome |-> f_outcome, log |-> f_log]

\* The request has not been made yet.
NotStarted(task) ==
    Frame(task, "idle", <<>>, 0, <<>>, <<>>, NoResults, "none", <<>>)

\* The running coroutine has given up the event loop: in MongoDB mode the
\* save_article or get_all_articles of its latest step awaited the driver
\* and, the step done, the next await of the database is ahead. Without a
\* database no await of the run suspends (fetch_articles, summarize and
\* cluster_articles are plain calls).
RunSuspends ==
    /\ use_db
    /\ pc \in {"persist", "summarize", "cluster", "assign"}
    /\ log # <<>>
    /\ log[Len(log)].ok
    /\ log[Len(log)].stage \in {"persist", "summarize", "cluster"}

\* A Pipeline just built; the startup task is about to call process_articles.
\* The collaborators of these runs do not fail: no failure is left to inject.
InitTasks ==
    /\ heap = << >>
    /\ clusters = << >>
    /\ clock = 0
    /\ calls = 0
    /\ budget = 0
    /\ last = NoCall
    /\ use_db \in BOOLEAN
    /\ EmptyStore
    /\ IdleRun
    /\ runs = 0
    /\ faults = MaxFaults
    /\ NoRedis
    /\ call = NotStarted(2)
    /\ shadow = << >>

\* The event loop resumes the other coroutine, the running one being
\* suspended or having returned its report.
SwitchTask ==
    /\ call.op = "parked"
    /\ call.pc # "done"
    /\ RunSuspends \/ pc = "done"
    /\ call' = Frame(3 - call.task, pc, raw_articles, idx, stored_articles,
                     all_articles, results, outcome, log)
    /\ pc' = call.pc
    /\ raw_articles' = call.raw_articles
    /\ idx' = call.idx
    /\ stored_articles' = call.stored_articles
    /\ all_articles' = call.all_articles
    /\ results' = call.results
    /\ outcome' = call.outcome
    /\ log' = call.log
    /\ UNCHANGED <<clusterer_vars, store_vars, runs, faults, serve_vars, shadow>>

NextTasks ==
    \/ Fetch
    \/ PersistOk
    \/ SummarizeOk
    \/ ClusterOk
    \/ AssignOk
    \/ InvalidateOk
    \/ SwitchTask

\* The startup task and one POST /articles/fetch on the shared Pipeline.
SpecTasks == InitTasks /\ [][NextTasks]_vars

\* ------------------------------------------------------ the read handlers
\* The body GET /clusters builds from the registry.
ClustersData(reg) ==
    [c \in DOMAIN reg |->
        [id |-> reg[c].id, label |-> reg[c].label,
         article_count |-> reg[c].article_count,
         created_at |-> reg[c].created_at, updated_at |-> reg[c].updated_at]]

\* The body GET /articles builds from a query result ("" for no summary).
ArticlesData(q) ==
    [data |-> [i \in 1..Len(q.articles) |->
                  [id |-> q.articles[i].id, title |-> q.articles[i].title,
                   summary |-> IF q.articles[i].summary = None THEN 0
                               ELSE q.articles[i].summary,
                   published_date |-> q.articles[i].published_date,
                   url |-> q.articles[i].url,
                   cluster_id |-> q.articles[i].cluster_id]],
     total |-> q.total]

\* The response a handler computes now, with the point of the run at which
\* it was computed.
Compute(key, db_ok) ==
    [at |-> [run |-> runs, pc |-> pc],
     data |-> IF key = "clusters:all" THEN ClustersData(clusters)
              ELSE ArticlesData(query_articles(heap, memory_articles, db,
                                               use_db, db_ok))]

\* `await store.query_articles(...)` waits for the database in MongoDB mode;
\* get_all_clusters() is an ordinary call.
ReadSuspends(key) == key = "query" /\ use_db

\* A cache call waits for Redis unless the manager is on its in-memory dict.
CacheSuspends(c) == c.configured /\ c.available # "False"

\* A handler runs only while the run is not executing: before and after it,
\* and wherever process_articles waits for the database or for Redis.
Yielded ==
    \/ pc \in {"idle", "done"}
    \/ use_db
    \/ pc = "invalidate" /\ CacheSuspends(cache)

\* The handler has its response: cache.set follows at once, or after the
\* wait for Redis.
AfterRead(c, key, resp) ==
    IF CacheSuspends(c)
    THEN [cache |-> c,
          reader |-> [pc |-> "set", key |-> key, resp |-> resp,
                      reads |-> reader.reads]]
    ELSE [cache |-> cache_set(c, key, resp, ResponseTtl(key), "down", clock),
          reader |-> IdleReader(reader.reads + 1)]

\* A request arrives: cache.get; a hit is returned, a miss goes on to the
\* read (at once, or after the wait for the database).
ReaderGet ==
    /\ reader.pc = "idle"
    /\ reader.reads < MaxReads
    /\ Yielded
    /\ \E key \in Keys, r \in Replies(cache, faults) :
         LET g == cache_get(cache, key, r, clock)
             nxt == AfterRead(g.cache, key, Compute(key, TRUE))
         IN /\ faults' = faults + Cost(cache, r)
            /\ IF g.value # Miss
               THEN /\ cache' = g.cache
                    /\ reader' = IdleReader(reader.reads + 1)
               ELSE IF ReadSuspends(key)
               THEN /\ cache' = g.cache
                    /\ reader' = [pc |-> "read", key |-> key, resp |-> Miss,
                                  reads |-> reader.reads]
               ELSE /\ cache' = nxt.cache
                    /\ reader' = nxt.reader
    /\ UNCHANGED <<clusterer_vars, store_vars, pc, raw_articles, idx,
                   stored_articles, all_articles, results, outcome, log, runs>>
    /\ UNCHANGED unit_vars

\* The database executes the handler's query (or raises, and the in-memory
\* articles are used); the handler goes on when the answer has reached it.
ReaderRead ==
    /\ reader.pc = "read"
    /\ Yielded
    /\ \E db_ok \in BOOLEAN :
         /\ ~db_ok => faults < MaxFaults
         /\ faults' = IF db_ok THEN faults ELSE faults + 1
         /\ reader' = [reader EXCEPT !.pc = "set",
                                     !.resp = Compute(reader.key, db_ok)]
    /\ cache' = cache
    /\ UNCHANGED <<clusterer_vars, store_vars, pc, raw_articles, idx,
                   stored_articles, all_articles, results, outcome, log, runs>>
    /\ UNCHANGED unit_vars

\* The handler, resumed with its response, completes cache.set.
ReaderSet ==
    /\ reader.pc = "set"
    /\ Yielded
    /\ \E r \in Replies(cache, faults) :
         /\ cache' = cache_set(cache, reader.key, reader.resp,
                             ResponseTtl(reader.key), r, clock)
         /\ faults' = faults + Cost(cache, r)
    /\ reader' = IdleReader(reader.reads + 1)
    /\ UNCHANGED <<clusterer_vars, store_vars, pc, raw_articles, idx,
                   stored_articles, all_articles, results, outcome, log, runs>>
    /\ UNCHANGED unit_vars

\* The application serving requests while process_articles runs, with or
\* without Redis.
InitServe ==
    /\ heap = << >>
    /\ clusters = << >>
    /\ clock = 0
    /\ calls = 0
    /\ budget = 0
    /\ last = NoCall
    /\ use_db \in BOOLEAN
    /\ EmptyStore
    /\ IdleRun
    /\ runs = 0
    /\ faults = 0
    /\ cache \in {NewCache(configured) : configured \in BOOLEAN}
    /\ reader = IdleReader(0)
    /\ NoUnit

NextServe ==
    \/ NextPipeline
    \/ ReaderGet
    \/ ReaderRead
    \/ ReaderSet

SpecServe == InitServe /\ [][NextServe]_vars

\* ------------------------------------------------ the fetcher's deduplicate
\* Raw articles over three urls and three contents.
DedupPool ==
    {RawArticle(url, <<>>, content, 1) : url \in 1..3, content \in 1..3}

\* The lists of at most MaxDedup such articles.
DedupInputs == UNION {[1..n -> DedupPool] : n \in 0..MaxDedup}

InitFetcher ==
    /\ heap = << >>
    /\ clusters = << >>
    /\ clock = 0
    /\ calls = 0
    /\ budget = 0
    /\ last = NoCall
    /\ use_db = FALSE
    /\ EmptyStore
    /\ IdleRun
    /\ runs = 0
    /\ faults = 0
    /\ NoRedis
    /\ NoUnit

\* fetcher.deduplicate(articles), called on its own.
Deduplicate ==
    /\ call.op = "none"
    /\ \E articles \in DedupInputs :
         call' = [op |-> "deduplicate", articles |-> articles,
                  ret |-> deduplicate(articles)]
    /\ UNCHANGED <<clusterer_vars, store_vars, run_vars, serve_vars, shadow>>

NextFetcher == Deduplicate

SpecFetcher == InitFetcher /\ [][NextFetcher]_vars

\* ------------------------------------------------------ retry_with_backoff
\* What one invocation of the wrapped function does: it returns a value,
\* raises an exception of the `exceptions` tuple, or raises another one.
Outcomes ==
    [kind : {"ok"}, value : 1..2]
        \cup [kind : {"listed", "unlisted"}, exc : 1..2]

\* The wrapper's locals when it is entered.
retry_enter(max_retries, initial_delay, backoff_factor) ==
    [op |-> "retry", max_retries |-> max_retries,
     initial_delay |-> initial_delay, backoff_factor |-> backoff_factor,
     delay |-> initial_delay, last_exception |-> None, attempt |-> 0,
     trace |-> <<>>, status |-> "running", ret |-> None, exc |-> None]

\* Mutant: the loop makes one attempt more.
retry_attempt_extra(c, res) ==
    LET invoked == Append(c.trace, [kind |-> "invoke", outcome |-> res])
    IN  IF res.kind = "ok"
        THEN [c EXCEPT !.trace = invoked, !.status = "returned",
                       !.ret = res.value]
        ELSE IF res.kind = "unlisted"
        THEN [c EXCEPT !.trace = invoked, !.status = "raised",
                       !.exc = res.exc]
        ELSE IF c.attempt < c.max_retries + 1
        THEN [c EXCEPT !.trace = Append(invoked, [kind |-> "sleep",
                                                  delay |-> c.delay]),
                       !.last_exception = res.exc,
                       !.delay = c.delay * c.backoff_factor,
                       !.attempt = c.attempt + 1]
        ELSE [c EXCEPT !.trace = invoked, !.last_exception = res.exc,
                       !.status = "raised", !.exc = res.exc]

\* One iteration of `for attempt in range(max_retries + 1)`, and the
\* `raise last_exception` behind the loop when it was the last one.
retry_attempt(c, res) ==
    LET invoked == Append(c.trace, [kind |-> "invoke", outcome |-> res])
    IN  IF res.kind = "ok"
        THEN [c EXCEPT !.trace = invoked, !.status = "returned",
                       !.ret = res.value]
        ELSE IF res.kind = "unlisted"
        THEN [c EXCEPT !.trace = invoked, !.status = "raised",
                       !.exc = res.exc]
        ELSE IF c.attempt < c.max_retries
        THEN [c EXCEPT !.trace = Append(invoked, [kind |-> "sleep",
                                                  delay |-> c.delay]),
                       !.last_exception = res.exc,
                       !.delay = c.delay * c.backoff_factor,
                       !.attempt = c.attempt + 1]
        ELSE [c EXCEPT !.trace = invoked, !.last_exception = res.exc,
                       !.status = "raised", !.exc = res.exc]

\* Nothing of the program has been called.
InitRetry == InitFetcher

\* The wrapped function is called: the wrapper sets up its locals.
RetryEnter ==
    /\ call.op = "none"
    /\ \E max_retries \in 0..MaxRetries, initial_delay \in 1..2,
          backoff_factor \in 1..3 :
         call' = retry_enter(max_retries, initial_delay, backoff_factor)
    /\ UNCHANGED <<clusterer_vars, store_vars, run_vars, serve_vars, shadow>>

\* One attempt, with the sleep that follows it if any.
RetryAttempt ==
    /\ call.op = "retry"
    /\ call.status = "running"
    /\ \E res \in Outcomes : call' = retry_attempt(call, res)
    /\ UNCHANGED <<clusterer_vars, store_vars, run_vars, serve_vars, shadow>>

NextRetry == RetryEnter \/ RetryAttempt

SpecRetry == InitRetry /\ [][NextRetry]_vars

\* ------------------------------------------------------------ the summarizer
\* A content handed to the summarizer on its own is a sequence of words; a
\* word may end in a full stop. <<>> is the empty string.
ContentWords == [text : {"a", "b"}, dot : BOOLEAN]

Contents == UNION {[1..n -> ContentWords] : n \in 0..MaxWords}

\* content.replace('\n', ' ').split('. ') followed by sentence.split(): a
\* full stop followed by a blank ends a sentence and is dropped; the full
\* stop of the content's last word stays in that word.
RECURSIVE split_sentences(_, _)
split_sentences(content, sentence) ==
    IF content = <<>> THEN (IF sentence = <<>> THEN <<>> ELSE <<sentence>>)
    ELSE LET word == Head(content)
         IN IF word.dot /\ Len(content) > 1
            THEN <<Append(sentence, [word EXCEPT !.dot = FALSE])>>
                    \o split_sentences(Tail(content), <<>>)
            ELSE split_sentences(Tail(content), Append(sentence, word))

\* Mutant: the sentence that exceeds the limit is still taken.
RECURSIVE ExtractTakeOver(_, _, _)
ExtractTakeOver(sentences, max_length, word_count) ==
    IF sentences = <<>> THEN <<>>
    ELSE LET words == Head(sentences)
         IN IF word_count + Len(words) <= max_length
            THEN words \o ExtractTakeOver(Tail(sentences), max_length,
                                          word_count + Len(words))
            ELSE words

\* The loop of _extractive_summarize: summary_words.
RECURSIVE ExtractTake(_, _, _)
ExtractTake(sentences, max_length, word_count) ==
    IF sentences = <<>> THEN <<>>
    ELSE LET words == Head(sentences)
         IN IF word_count + Len(words) <= max_length
            THEN words \o ExtractTake(Tail(sentences), max_length,
                                      word_count + Len(words))
            ELSE <<>>

\* Summarizer._extractive_summarize
extractive_summarize(content, max_length) ==
    LET summary == ExtractTake(split_sentences(content, <<>>), max_length, 0)
    IN  IF summary # <<>> /\ ~summary[Len(summary)].dot
        THEN [summary EXCEPT ![Len(summary)].dot = TRUE]
        ELSE summary

\* What the model is seen to do when it is asked: it is not available, it
\* answers, or it raises.
ModelStates == {"unavailable", "answers", "raises"}

\* Summarizer._ai_summarize when the model answers: some text of the model.
ai_summarize(content) == <<[text |-> "a", dot |-> TRUE]>>

\* Summarizer.summarize on such a content.
summarize_content(content, max_length, model) ==
    IF content = <<>> THEN <<>>
    ELSE IF Len(content) <= max_length THEN content
    ELSE IF model = "answers" THEN ai_summarize(content)
    ELSE extractive_summarize(content, max_length)

\* Summarizer.batch_summarize
batch_summarize(contents, max_length, model) ==
    IF model # "unavailable"
    THEN [i \in 1..Len(contents) |->
             summarize_content(contents[i], max_length, model)]
    ELSE [i \in 1..Len(contents) |->
             extractive_summarize(contents[i], max_length)]

\* The batches handed to batch_summarize: at most MaxBatch contents of at
\* most two words.
Batches ==
    UNION {[1..n -> {c \in Contents : Len(c) <= 2}] : n \in 0..MaxBatch}

\* Summarizer(max_length = ...): nothing of the program has been called.
InitSummarizer == InitFetcher

\* summarizer._extractive_summarize(content), called on its own.
ExtractiveSummarize ==
    /\ call.op = "none"
    /\ \E content \in Contents, max_length \in 1..MaxLength :
         call' = [op |-> "extractive_summarize", content |-> content,
                  max_length |-> max_length,
                  ret |-> extractive_summarize(content, max_length)]
    /\ UNCHANGED <<clusterer_vars, store_vars, run_vars, serve_vars, shadow>>

\* summarizer.batch_summarize(contents), called on its own.
BatchSummarize ==
    /\ call.op = "none"
    /\ \E contents \in Batches, max_length \in 1..MaxLength,
          model \in ModelStates :
         call' = [op |-> "batch_summarize", contents |-> contents,
                  max_length |-> max_length, model |-> model,
                  ret |-> batch_summarize(contents, max_length, model)]
    /\ UNCHANGED <<clusterer_vars, store_vars, run_vars, serve_vars, shadow>>

NextSummarizer == ExtractiveSummarize \/ BatchSummarize

SpecSummarizer == InitSummarizer /\ [][NextSummarizer]_vars

\* ------------------------------------------- the parameters of HDBSCAN alone
\* Mutant: min_samples is handed over as configured.
effective_params_unclamped(mcs, ms, n) ==
    [min_cluster_size |-> Min2(mcs, Max2(2, n \div 3)), min_samples |-> ms]

\* The parameters _hdbscan_cluster hands to hdbscan.HDBSCAN for n articles:
\*     effective_min_cluster = min(self.min_cluster_size, max(2, len(articles) // 3))
\*     effective_min_samples = min(self.min_samples, effective_min_cluster)
effective_params(mcs, ms, n) ==
    [min_cluster_size |-> Min2(mcs, Max2(2, n \div 3)),
     min_samples |-> Min2(ms, Min2(mcs, Max2(2, n \div 3)))]

\* TopicClusterer(min_cluster_size = ..., min_samples = ...): nothing of the
\* program has been called.
InitClustererParams == InitFetcher

\* The first lines of _hdbscan_cluster for some configuration and some list
\* of n articles; cluster_articles takes the density path only with
\* n >= min_cluster_size.
HdbscanParams ==
    /\ call.op = "none"
    /\ \E mcs \in 1..MaxMinClusterSize, ms \in 1..MaxMinSamples :
         \E n \in mcs..MaxCount :
            call' = [op |-> "hdbscan_params", min_cluster_size |-> mcs,
                     min_samples |-> ms, n |-> n,
                     ret |-> effective_params(mcs, ms, n)]
    /\ UNCHANGED <<clusterer_vars, store_vars, run_vars, serve_vars, shadow>>

NextParams == HdbscanParams

SpecParams == InitClustererParams /\ [][NextParams]_vars

\* ------------------------------------------------- the cache manager alone
\* What callers store, and what a compute_fn can return (Miss is None).
CacheValues == {[data |-> 1], [data |-> 2]}

ComputedValues == {[data |-> 1], Miss}

\* The ttl arguments, in units of the clock.
Ttls == 0..1

\* The record of the calls made: per key the latest set that no delete or
\* clear has followed (its value, time, ttl, whether the manager was in
\* in-memory mode, whether the write to Redis was tried and raised, r being
\* the answer of Redis, and whether get_or_compute made it), the keys removed
\* and not set since, whether a clear was the latest change, the calls so far.
NoCalls == [sets |-> << >>, removed |-> {}, cleared |-> FALSE, ops |-> 0]

Recorded(key, value, ttl, by, c, r) ==
    [shadow EXCEPT
        !.sets = (key :> [value |-> value, at |-> clock, ttl |-> ttl,
                          memory |-> c.available = "False",
                          failed |-> c.available = "True"
                                        /\ (r = "error" \/ ttl <= 0),
                          by |-> by]) @@ @,
        !.removed = @ \ {key},
        !.cleared = FALSE,
        !.ops = @ + 1]

\* The latest recorded set of a key, if any.
Known(key) ==
    IF key \in DOMAIN shadow.sets THEN {shadow.sets[key]} ELSE {}

\* What Redis and the dict hold under a key.
EntriesOf(c, key) ==
    [redis |-> IF key \in DOMAIN c.redis THEN {c.redis[key]} ELSE {},
     memory |-> IF key \in DOMAIN c.memory THEN {c.memory[key]} ELSE {}]

\* CacheManager() in a process with or without a Redis to connect to.
InitCacheManager(configured) ==
    /\ heap = << >>
    /\ clusters = << >>
    /\ clock = 0
    /\ calls = 0
    /\ budget = 0
    /\ last = NoCall
    /\ use_db = FALSE
    /\ EmptyStore
    /\ IdleRun
    /\ runs = 0
    /\ faults = 0
    /\ cache = NewCache(configured)
    /\ reader = IdleReader(0)
    /\ call = [op |-> "none"]
    /\ shadow = NoCalls

InitCache == InitCacheManager(FALSE)

InitCacheRedis == InitCacheManager(TRUE)

\* await cache.set(key, value, ttl)
CacheSet ==
    /\ shadow.ops < MaxOps
    /\ \E key \in Keys, value \in CacheValues, ttl \in Ttls,
          r \in Replies(cache, faults) :
         /\ cache' = cache_set(cache, key, value, ttl, r, clock)
         /\ faults' = faults + Cost(cache, r)
         /\ call' = [op |-> "set", key |-> key, now |-> clock]
         /\ shadow' = Recorded(key, value, ttl, "set", cache', r)
    /\ UNCHANGED <<clusterer_vars, store_vars, pc, raw_articles, idx,
                   stored_articles, all_articles, results, outcome, log, runs,
                   reader>>

\* await cache.get(key)
CacheGet ==
    /\ shadow.ops < MaxOps
    /\ \E key \in Keys, r \in Replies(cache, faults) :
         LET g == cache_get(cache, key, r, clock)
         IN /\ cache' = g.cache
            /\ faults' = faults + Cost(cache, r)
            /\ call' = [op |-> "get", key |-> key, now |-> clock,
                        ret |-> g.value]
    /\ shadow' = [shadow EXCEPT !.ops = @ + 1]
    /\ UNCHANGED <<clusterer_vars, store_vars, pc, raw_articles, idx,
                   stored_articles, all_articles, results, outcome, log, runs,
                   reader>>

\* await cache.delete(key)
CacheDelete ==
    /\ shadow.ops < MaxOps
    /\ \E key \in Keys, r \in Replies(cache, faults) :
         /\ cache' = cache_delete(cache, key, r)
         /\ faults' = faults + Cost(cache, r)
         /\ call' = [op |-> "delete", key |-> key, now |-> clock,
                     others |-> [k \in Keys \ {key} |-> EntriesOf(cache, k)]]
         /\ shadow' = [shadow EXCEPT !.sets = MapDrop(@, key),
                                     !.removed = @ \cup {key},
                                     !.ops = @ + 1]
    /\ UNCHANGED <<clusterer_vars, store_vars, pc, raw_articles, idx,
                   stored_articles, all_articles, results, outcome, log, runs,
                   reader>>

\* await cache.clear()
CacheClear ==
    /\ shadow.ops < MaxOps
    /\ \E r \in Replies(cache, faults) :
         /\ cache' = cache_clear(cache, r)
         /\ faults' = faults + Cost(cache, r)
    /\ call' = [op |-> "clear", now |-> clock]
    /\ shadow' = [shadow EXCEPT !.sets = << >>, !.removed = Keys,
                                !.cleared = TRUE, !.ops = @ + 1]
    /\ UNCHANGED <<clusterer_vars, store_vars, pc, raw_articles, idx,
                   stored_articles, all_articles, results, outcome, log, runs,
                   reader>>

\* await cache.size()
CacheSize ==
    /\ shadow.ops < MaxOps
    /\ \E r \in Replies(cache, faults) :
         LET s == cache_size(cache, r, clock)
         IN /\ cache' = s.cache
            /\ faults' = faults + Cost(cache, r)
            /\ call' = [op |-> "size", now |-> clock, ret |-> s.value]
    /\ shadow' = [shadow EXCEPT !.ops = @ + 1]
    /\ UNCHANGED <<clusterer_vars, store_vars, pc, raw_articles, idx,
                   stored_articles, all_articles, results, outcome, log, runs,
                   reader>>

\* await cache.get_or_compute(key, compute_fn, ttl)
CacheGetOrCompute ==
    /\ shadow.ops < MaxOps
    /\ \E key \in Keys, fvalue \in ComputedValues, ttl \in Ttls,
          r \in Replies(cache, faults) :
         \E rs \in Replies(get_redis(cache, r).cache,
                           faults + Cost(cache, r)) :
            LET res == get_or_compute(cache, key, fvalue, ttl, r, rs, clock)
                cost == Cost(cache, r)
                          + IF res.invoked
                            THEN Cost(get_redis(cache, r).cache, rs) ELSE 0
            IN /\ cache' = res.cache
               /\ faults' = faults + cost
               /\ call' = [op |-> "get_or_compute", key |-> key,
                           now |-> clock, ret |-> res.value,
                           invoked |-> res.invoked, known |-> Known(key)]
               /\ shadow' = IF res.invoked
                            THEN Recorded(key, fvalue, ttl, "compute", cache', rs)
                            ELSE [shadow EXCEPT !.ops = @ + 1]
    /\ UNCHANGED <<clusterer_vars, store_vars, pc, raw_articles, idx,
                   stored_articles, all_articles, results, outcome, log, runs,
                   reader>>

\* Time passes between two calls.
CacheTick ==
    /\ clock < MaxTime
    /\ clock' = clock + 1
    /\ UNCHANGED <<heap, clusters, calls, budget, last, store_vars, run_vars,
                   serve_vars, unit_vars>>

NextCache ==
    \/ CacheSet
    \/ CacheGet
    \/ CacheDelete
    \/ CacheClear
    \/ CacheSize
    \/ CacheGetOrCompute
    \/ CacheTick

\* A CacheManager without Redis (the in-memory mode of the tests).
SpecCache == InitCache /\ [][NextCache]_vars

\* A CacheManager with a Redis that may fail.
SpecCacheRedis == InitCacheRedis /\ [][NextCache]_vars

\* ------------------------------------------------- the article store alone
\* The articles a caller saves: two ids, two publication dates.
SavedArticles ==
    {Article(id, id, <<"A","I">>, 0, None, published_date, None, None) :
        id \in 1..2, published_date \in 1..2}

\* The record of the calls made: per id the article of the latest save that
\* no archiving has removed, the ids archived and not saved since, the
\* calls so far.
NoSaves == [saved |-> << >>, archived |-> {}, ops |-> 0]

\* ArticleStore() in in-memory mode (the store fixture of the tests).
InitStore ==
    /\ heap = << >>
    /\ clusters = << >>
    /\ clock = 0
    /\ calls = 0
    /\ budget = 0
    /\ last = NoCall
    /\ use_db = FALSE
    /\ EmptyStore
    /\ IdleRun
    /\ runs = 0
    /\ faults = 0
    /\ NoRedis
    /\ call = [op |-> "none"]
    /\ shadow = NoSaves

\* await store.save_article(article)
StoreSave ==
    /\ shadow.ops < MaxOps
    /\ \E article \in SavedArticles :
         LET oid == NewOid(heap)
             h == (oid :> article) @@ heap
             s == save_article(h, memory_articles, db, use_db, oid, TRUE)
         IN /\ heap' = h
            /\ memory_articles' = s.mem
            /\ db' = s.db
            /\ call' = [op |-> "save_article", ret |-> article.id]
            /\ shadow' = [shadow EXCEPT
                             !.saved = (article.id :> article) @@ @,
                             !.archived = @ \ {article.id},
                             !.ops = @ + 1]
    /\ UNCHANGED <<clusters, clock, calls, budget, last, use_db, next_id,
                   run_vars, serve_vars>>

\* await store.get_article(article_id)
StoreGet ==
    /\ shadow.ops < MaxOps
    /\ \E article_id \in 1..3 :
         call' = [op |-> "get_article", id |-> article_id,
                  ret |-> get_article(heap, memory_articles, db, use_db,
                                      article_id),
                  before |-> <<memory_articles, db>>]
    /\ shadow' = [shadow EXCEPT !.ops = @ + 1]
    /\ UNCHANGED <<clusterer_vars, store_vars, run_vars, serve_vars>>

\* await store.archive_old_articles(days), the cutoff being now - days
StoreArchive ==
    /\ shadow.ops < MaxOps
    /\ \E cutoff \in 1..3 :
         LET s == archive_old_articles(heap, memory_articles, db, use_db,
                                       cutoff, TRUE)
             old == {id \in DOMAIN shadow.saved :
                        shadow.saved[id].published_date < cutoff}
         IN /\ memory_articles' = s.mem
            /\ db' = s.db
            /\ call' = [op |-> "archive_old_articles", ret |-> s.archived]
            /\ shadow' = [shadow EXCEPT
                             !.saved = [id \in DOMAIN @ \ old |-> @[id]],
                             !.archived = @ \cup old,
                             !.ops = @ + 1]
    /\ UNCHANGED <<clusterer_vars, use_db, next_id, run_vars, serve_vars>>

\* await store.count_articles()
StoreCount ==
    /\ shadow.ops < MaxOps
    /\ call' = [op |-> "count_articles",
                ret |-> count_articles(memory_articles, db, use_db, TRUE)]
    /\ shadow' = [shadow EXCEPT !.ops = @ + 1]
    /\ UNCHANGED <<clusterer_vars, store_vars, run_vars, serve_vars>>

NextStore == StoreSave \/ StoreGet \/ StoreArchive \/ StoreCount

SpecStore == InitStore /\ [][NextStore]_vars

\* ------------------------------------------------- a run after an earlier run
\* The article an earlier, failure-free run made of the first pool article:
\* stored, summarized, and put in its keyword bucket by the cluster stage
\* (a single article is below min_cluster_size).
FirstArticle ==
    LET a == process_raw_article(RawPool[1], 1)
    IN [a EXCEPT !.summary = summarize(decompress(a.compressed_content)),
                 !.cluster_id = KeywordBucket(a.title)]

\* The application after that earlier run has returned: the article is a
\* MongoDB document, or an object of the in-memory dict, and the clusterer
\* holds the cluster the run registered at time 1.
InitRerun ==
    /\ use_db \in BOOLEAN
    /\ db = IF use_db THEN <<to_document(FirstArticle)>> ELSE <<>>
    /\ memory_articles = IF use_db THEN <<>> ELSE <<[id |-> 1, oid |-> 1]>>
    /\ heap = IF use_db THEN << >> ELSE (1 :> FirstArticle)
    /\ next_id = 2
    /\ clusters = keyword_cluster(<<1>>, (1 :> FirstArticle), << >>, 1).clusters
    /\ clock = 1
    /\ calls = 0
    /\ budget = 0
    /\ last = NoCall
    /\ IdleRun
    /\ runs = 0
    /\ faults = 0
    /\ NoRedis
    /\ NoUnit

SpecRerun == InitRerun /\ [][NextPipeline]_vars

\* ================================================================ claims
\* The latest direct call was made on a non-empty list and has returned.
Returned == last.path \in {"keyword", "density", "fallback"}

\* How often article id x is listed in the returned map.
Listed(m, x) ==
    Cardinality({p \in (1..Len(m)) \X (1..MaxArticles) :
                    p[2] <= Len(m[p[1]].ids) /\ m[p[1]].ids[p[2]] = x})

\* C1: after cluster_articles returns for a non-empty list of articles with
\* pairwise-distinct ids (density path, keyword path or fallback), every input
\* article has a cluster_id, every input id is listed exactly once in the
\* returned map, and the returned lists together hold exactly the input ids.
C1_AllAssigned ==
    Returned =>
        LET ids == {heap[a].id : a \in Range(last.articles)}
        IN /\ \A a \in Range(last.articles) : heap[a].cluster_id # None
           /\ \A x \in ids : Listed(last.map, x) = 1
           /\ UNION {Range(last.map[i].ids) : i \in 1..Len(last.map)} = ids

\* C1 witness: a density run that put some articles in clusters and others
\* in the noise bucket.
C1_Witness ==
    /\ last.path = "density"
    /\ NOISE_ID \in last.top
    /\ 0 \in last.top

\* C2: every id _sub_cluster allocates for a parent p < 100 lies in
\* [p*100+1, p*100+99] and differs from every top-level cluster id of the run.
C2_SubIdsAvoidTopLevel ==
    \A s \in last.subs :
        s.parent < 100 =>
            /\ s.id \in (s.parent * 100 + 1)..(s.parent * 100 + 99)
            /\ s.id \notin last.top

\* C10: every Cluster in the registry has article_count = len(article_ids).
C10_ArticleCount ==
    \A c \in DOMAIN clusters :
        clusters[c].article_count = Len(clusters[c].article_ids)

\* C10 witness: after two calls the registry holds a keyword cluster, a
\* density cluster and a sub-cluster, all non-empty.
C10_Witness ==
    /\ calls = 2
    /\ \E c \in DOMAIN clusters : clusters[c].label.sub > 0
    /\ \E c \in DOMAIN clusters : clusters[c].centroid = None /\ clusters[c].label.sub = 0
    /\ \E c \in DOMAIN clusters : clusters[c].centroid # None
    /\ \A c \in DOMAIN clusters : clusters[c].article_count > 0

\* C12: a clustering run that writes a cluster whose id is already in the
\* registry keeps that cluster's created_at: the created_at of a cluster id
\* never changes once the id has been created.
C12_CreatedAtPreserved ==
    [][\A c \in DOMAIN clusters \cap DOMAIN clusters' :
          clusters'[c].created_at = clusters[c].created_at]_vars

\* The latest call took the keyword path (directly or as the fallback).
ByKeywords == last.path \in {"keyword", "fallback"}

\* C16: on the keyword path every article is in the first bucket, in table
\* order 0..6, one of whose keywords occurs in its lower-cased title, and in
\* bucket 7 when no bucket matches; the registry label of every cluster
\* produced is the fixed name of its bucket, 'Miscellaneous' for bucket 7.
C16_FirstMatchingBucket ==
    ByKeywords =>
        /\ \A a \in Range(last.articles) :
              LET cid == heap[a].cluster_id
                  tl == Lower(heap[a].title)
              IN /\ cid \in 0..7
                 /\ \A d \in 0..6 : d < cid => ~AnyKeyword(d, tl)
                 /\ cid # 7 => AnyKeyword(cid, tl)
                 /\ heap[a].id \in Range(last.map[MapGet(last.map, cid)].ids)
        /\ \A c \in last.top :
              /\ clusters[c].label.text = KEYWORD_LABELS[c]
              /\ clusters[c].label.sub = 0
        /\ KEYWORD_LABELS[7] = "Miscellaneous"

\* C16 witness: a keyword run with a title matching two buckets (it went to
\* the first) and a title matching none (it went to bucket 7).
C16_Witness ==
    /\ last.path = "keyword"
    /\ \E a \in Range(last.articles) :
          /\ heap[a].cluster_id = 1
          /\ AnyKeyword(6, Lower(heap[a].title))
    /\ \E a \in Range(last.articles) : heap[a].cluster_id = MISC_ID

\* The pool before any call: no article has a cluster_id.
Pristine == [i \in 1..MaxArticles |-> PoolArticle(i)]

\* C17: the keyword path is a function of the titles in their order: its
\* assignments and its returned map (bucket per position, member order per
\* bucket) are those a new clusterer computes for articles never clustered
\* before, whatever the registry held and whatever cluster_id the articles had.
C17_KeywordDeterministic ==
    ByKeywords =>
        LET ref == keyword_cluster(last.articles, Pristine, << >>, 0)
        IN /\ last.map = ref.map
           /\ \A a \in Range(last.articles) :
                 heap[a].cluster_id = ref.heap[a].cluster_id

\* C17 witness: a keyword run on articles an earlier density run had put in
\* the noise bucket, whose entry is still in the registry.
C17_Witness ==
    /\ last.path = "keyword"
    /\ calls = 2
    /\ NOISE_ID \in DOMAIN clusters
    /\ \E a \in Range(last.articles) :
          heap[a].id \in Range(clusters[NOISE_ID].article_ids)

\* C18: cluster_articles on an empty list returns an empty map and leaves the
\* registry (and every article) as it was.
C18_EmptyInputNoEffect ==
    [][(calls' = calls + 1 /\ last'.articles = <<>>) =>
          /\ last'.path = "empty"
          /\ last'.map = <<>>
          /\ clusters' = clusters
          /\ heap' = heap]_vars

\* C18 witness: a call on the empty list made when the registry was not empty.
C18_Witness ==
    /\ last.path = "empty"
    /\ calls = 2
    /\ DOMAIN clusters # {}

\* C19: after every cluster_articles call the registry holds, for every
\* cluster id of the returned map, a Cluster with that id whose article_ids
\* is the returned list.
C19_MapIsRegistryView ==
    \A i \in 1..Len(last.map) :
        /\ last.map[i].cid \in DOMAIN clusters
        /\ clusters[last.map[i].cid].article_ids = last.map[i].ids

\* The members the returned map lists for a cluster id.
MapIds(cid) == last.map[MapGet(last.map, cid)].ids

\* C20: after a density call, for every sub-cluster added for a parent: the
\* parent's registry entry still has the article_ids of the returned map,
\* every article of the call carries the id of the map entry that lists it,
\* the sub-cluster's members are members of the parent, and no article is in
\* two sub-clusters of the same parent.
C20_SplitIsAdditive ==
    last.path = "density" =>
        /\ \A a \in Range(last.articles) :
              heap[a].id \in Range(MapIds(heap[a].cluster_id))
        /\ \A s \in last.subs :
              /\ clusters[s.parent].article_ids = MapIds(s.parent)
              /\ Range(clusters[s.id].article_ids) \subseteq Range(MapIds(s.parent))
              /\ \A a \in Range(clusters[s.id].article_ids) :
                    \E o \in Range(last.articles) :
                        heap[o].id = a /\ heap[o].cluster_id = s.parent
              /\ \A u \in last.subs :
                    (u.parent = s.parent /\ u.id # s.id) =>
                        Range(clusters[u.id].article_ids)
                            \cap Range(clusters[s.id].article_ids) = {}

\* C31: a call whose density attempt failed (hdbscan missing, fit_predict or
\* a later step raising) has returned, and its returned map and the
\* cluster_id of every article are those _keyword_cluster computes for the
\* same articles, whatever the failed attempt had assigned before.
C31_DensityFailureFallsBack ==
    last.path = "fallback" =>
        LET ref == keyword_cluster(last.articles, Pristine, << >>, 0)
        IN /\ last.embeddings /\ Len(last.articles) >= min_cluster_size
           /\ last.map = ref.map
           /\ \A a \in Range(last.articles) :
                 /\ heap[a].cluster_id = ref.heap[a].cluster_id
                 /\ heap[a].cluster_id = KeywordBucket(heap[a].title)

\* C31 witness: the first call failed after the density run had assigned
\* the noise bucket and written it to the registry, and the articles are in
\* keyword buckets.
C31_Witness ==
    /\ last.path = "fallback"
    /\ calls = 1
    /\ NOISE_ID \in DOMAIN clusters
    /\ \A a \in Range(last.articles) : heap[a].cluster_id \in 0..7

\* C34: after a call that took the density path, every article that
\* fit_predict labelled -1 has cluster_id 999 and is listed under key 999 of
\* the returned map and of the registry, and every other article has its
\* label as cluster_id.
C34_NoiseGoesToBucket999 ==
    last.path = "density" =>
        \A i \in 1..Len(last.articles) :
            LET a == heap[last.articles[i]]
            IN IF last.labels[i] = -1
               THEN /\ a.cluster_id = NOISE_ID
                    /\ NOISE_ID \in MapKeys(last.map)
                    /\ a.id \in Range(MapIds(NOISE_ID))
                    /\ NOISE_ID \in DOMAIN clusters
                    /\ a.id \in Range(clusters[NOISE_ID].article_ids)
               ELSE /\ last.labels[i] >= 0
                    /\ a.cluster_id = last.labels[i]

\* C34 witness: a density run with a noise point and with articles in the
\* clusters 0 and 1.
C34_Witness ==
    /\ last.path = "density"
    /\ \E i \in 1..Len(last.articles) : last.labels[i] = -1
    /\ \E i \in 1..Len(last.articles) : last.labels[i] = 1

\* C32: no cluster that _sub_cluster created is itself split in the same
\* call: the Cluster every sub-cluster was split from is a top-level one.
C32_OneLevelDeep ==
    \A s \in last.subs : ~s.nested

\* C33: no cluster with an id of 100 or more, the noise bucket 999
\* included, is the parent of a sub-cluster: every sub-cluster id allocated
\* has a parent below 100.
C33_ParentsBelow100 ==
    \A s \in last.subs : s.parent < 100

\* C37: after a call on a non-empty list every Cluster of the registry is a
\* key of the returned map or a sub-cluster created by the call, and no
\* article id is listed in two top-level clusters of the registry.
C37_RegistryIsLatestRun ==
    Returned =>
        /\ \A c \in DOMAIN clusters :
              c \in MapKeys(last.map) \/ c \in {s.id : s \in last.subs}
        /\ \A c, d \in DOMAIN clusters :
              (c # d /\ clusters[c].label.sub = 0 /\ clusters[d].label.sub = 0)
                 => Range(clusters[c].article_ids)
                       \cap Range(clusters[d].article_ids) = {}

\* C39: a value that set(k, v) put into the in-memory dict because the write
\* to Redis raised is what a get(k) returns before the TTL is over, no delete,
\* clear or later set of k in between, also when Redis answers that get.
C39_FallbackValueNotMasked ==
    (call.op = "get" /\ call.key \in DOMAIN shadow.sets
        /\ shadow.sets[call.key].failed
        /\ call.now < shadow.sets[call.key].at + shadow.sets[call.key].ttl) =>
        call.ret = shadow.sets[call.key].value

\* C35: for every configured min_cluster_size and min_samples and every
\* number n of articles on the density path, effective_min_cluster_size is
\* the smaller of min_cluster_size and max(2, n // 3), effective_min_samples is
\* the smaller of min_samples and effective_min_cluster_size, hence
\* effective_min_samples <= effective_min_cluster_size <= max(2, n // 3).
C35_EffectiveParameters ==
    call.op = "hdbscan_params" =>
        LET third == CHOOSE q \in 0..call.n : 3 * q <= call.n /\ call.n < 3 * q + 3
            cap == IF third >= 2 THEN third ELSE 2
            emc == call.ret.min_cluster_size
            ems == call.ret.min_samples
        IN /\ emc \in {call.min_cluster_size, cap}
           /\ emc <= call.min_cluster_size /\ emc <= cap
           /\ ems \in {call.min_samples, emc}
           /\ ems <= call.min_samples /\ ems <= emc
           /\ ems <= emc /\ emc <= cap

\* C35 witness: the default configuration (5, 3) on 6 articles, where both
\* clamps bite: the parameters are 2 and 2.
C35_Witness ==
    /\ call.op = "hdbscan_params"
    /\ call.min_cluster_size = 5 /\ call.min_samples = 3 /\ call.n = 6
    /\ call.ret = [min_cluster_size |-> 2, min_samples |-> 2]

\* The entries of a report's errors list that begin with a stage's name.
ErrorsOf(res, stage) ==
    Cardinality({i \in 1..Len(res.errors) : res.errors[i].stage = stage})

\* C36: at every point of a run summarized <= stored <= fetched, and in the
\* report of a run with a non-empty fetch and no 'Pipeline' entry, stored
\* plus the number of 'Store:' errors is fetched and summarized plus the
\* number of 'Summary:' errors is stored.
C36_CountersConsistent ==
    /\ results.summarized <= results.stored
    /\ results.stored <= results.fetched
    /\ (outcome = "report" /\ results.fetched > 0
            /\ ErrorsOf(results, "Pipeline") = 0) =>
          /\ results.stored + ErrorsOf(results, "Store") = results.fetched
          /\ results.summarized + ErrorsOf(results, "Summary") = results.stored

\* C36 witness: the report of a run that fetched two articles, failed to
\* store one and failed to summarize the other.
C36_Witness ==
    /\ outcome = "report"
    /\ results.fetched = 2 /\ results.stored = 1 /\ results.summarized = 0
    /\ ErrorsOf(results, "Store") = 1 /\ ErrorsOf(results, "Summary") = 1
    /\ ErrorsOf(results, "Pipeline") = 0

\* The locals of a task: those of the running coroutine or the parked ones.
TaskFrame(task) ==
    IF call.task = task THEN call
    ELSE Frame(task, pc, raw_articles, idx, stored_articles, all_articles,
               results, outcome, log)

\* A task has begun its persist stage.
BegunPersist(f) ==
    f.pc = "persist" \/ \E i \in 1..Len(f.log) : f.log[i].stage = "persist"

\* C38: two invocations of process_articles on the shared Pipeline never
\* interleave their stages: the one that came second begins its persist
\* stage only after the first has returned its report.
C38_RunsDoNotInterleave ==
    (call.op = "parked" /\ BegunPersist(TaskFrame(2))) =>
        TaskFrame(1).pc = "done"

\* C30: a call on a non-empty list enters _hdbscan_cluster exactly when
\* generate_embeddings returned embeddings and there are at least
\* min_cluster_size articles; otherwise every article is in its keyword
\* bucket and the returned map has only bucket ids 0..7.
C30_DensityIffEmbeddingsAndSize ==
    Returned =>
        /\ last.path \in {"density", "fallback"}
              <=> (last.embeddings /\ Len(last.articles) >= min_cluster_size)
        /\ last.path = "keyword" =>
              /\ MapKeys(last.map) \subseteq 0..7
              /\ \A a \in Range(last.articles) :
                    /\ heap[a].cluster_id = KeywordBucket(heap[a].title)
                    /\ heap[a].id \in Range(MapIds(heap[a].cluster_id))

\* C30 witness: embeddings were obtained for a batch below min_cluster_size
\* and the keyword path ran.
C30_Witness ==
    /\ last.path = "keyword"
    /\ last.embeddings
    /\ Len(last.articles) > 0
    /\ Len(last.articles) < min_cluster_size

\* ------------------------------------------------ claims about one run
\* Positions of the run's log whose call belongs to a stage.
Events(stage) == {i \in 1..Len(log) : log[i].stage = stage}

Failed(stage) == {i \in Events(stage) : ~log[i].ok}

Succeeded(stage) == {i \in Events(stage) : log[i].ok}

\* Positions of results["errors"] written by a stage.
Errors(stage) ==
    {k \in 1..Len(results.errors) : results.errors[k].stage = stage}

\* The run has handed its report (or an exception) to the caller.
RunOver == pc = "done"

\* The article the store answers with for an id, as the routes read it.
Held(id) == get_article(heap, memory_articles, db, use_db, id)

\* Rank of a stage in the documented order.
Rank(stage) ==
    CASE stage = "fetch" -> 1
      [] stage = "persist" -> 2
      [] stage = "summarize" -> 3
      [] stage = "cluster" -> 4
      [] stage = "invalidate" -> 5

\* C3 as stated: every run of process_articles has invoked cache.clear()
\* exactly once when it returns, whatever the fetch returned.
C3_ClearOncePerRun ==
    RunOver => Cardinality(Events("invalidate")) = 1

\* C3 amended: cache.clear() is never invoked twice in a run; a run whose
\* fetch returned at least one article has invoked it exactly once when it
\* returns, whatever failed in between; a run whose fetch returned no article
\* or raised returns without invoking it.
C3_ClearOnceAfterNonEmptyFetch ==
    /\ Cardinality(Events("invalidate")) <= 1
    /\ RunOver =>
          Cardinality(Events("invalidate")) =
              (IF raw_articles # <<>> THEN 1 ELSE 0)

\* C3 witness: a finished run with a per-item store failure and a failed
\* clustering stage that still cleared the cache once.
C3_Witness ==
    /\ RunOver
    /\ Errors("Store") # {}
    /\ Errors("Clustering") # {}
    /\ Cardinality(Events("invalidate")) = 1

\* C4: process_articles never lets an exception reach its caller: every run
\* ends by returning the report, and the report holds one 'Pipeline' entry
\* exactly when a failure was caught by the outer handler (the fetch or
\* cache.clear raised), none otherwise.
C4_AlwaysReport ==
    /\ outcome \in {"none", "report"}
    /\ RunOver =>
          /\ outcome = "report"
          /\ Cardinality(Errors("Pipeline")) =
                 Cardinality(Failed("fetch") \cup Failed("invalidate"))
          /\ Cardinality(Errors("Pipeline")) <= 1

\* C4 witness: cache.clear raised after a run that had stored an article,
\* and the caller still got the report with the 'Pipeline' entry.
C4_Witness ==
    /\ RunOver
    /\ outcome = "report"
    /\ Failed("invalidate") # {}
    /\ results.stored > 0
    /\ Errors("Pipeline") # {}

\* C5: the persist stage isolates failures per item: once the stage is over
\* every fetched item was attempted exactly once, stored counts exactly the
\* items that succeeded, each of them is held by the store when the stage
\* ends, and errors holds exactly one 'Store' entry, carrying its title, for
\* each failed item and none for an item that succeeded.
C5_PersistIsolation ==
    /\ results.stored = Cardinality(Succeeded("persist"))
    /\ results.stored = Len(stored_articles)
    /\ Cardinality(Errors("Store")) = Cardinality(Failed("persist"))
    /\ \A i \in Events("persist") :
          Cardinality({k \in Errors("Store") :
              results.errors[k].title = raw_articles[log[i].item].title})
          = (IF log[i].ok THEN 0 ELSE 1)
    /\ (Events("summarize") \cup Events("cluster") = {}) =>
          \A i \in Succeeded("persist") :
              Held(log[i].id) # ArticleNotFoundError
    /\ (pc \in {"summarize", "cluster", "assign", "invalidate"}
           \/ (RunOver /\ raw_articles # <<>>)) =>
          \A item \in 1..Len(raw_articles) :
              Cardinality({i \in Events("persist") : log[i].item = item}) = 1

\* C5 witness: the first of two fetched items failed, the second was stored.
C5_Witness ==
    /\ RunOver
    /\ Len(raw_articles) = 2
    /\ \E i \in Failed("persist") : log[i].item = 1
    /\ \E i \in Succeeded("persist") : log[i].item = 2
    /\ results.stored = 1

\* C6: after a run, every stored article whose summarization step failed
\* (decompress, summarize or the save that follows raised) is held by the
\* store with summary = null, was not counted in summarized, and has exactly
\* one 'Summary' entry in errors.
C6_FailedSummaryStaysNull ==
    RunOver =>
        /\ results.summarized = Cardinality(Succeeded("summarize"))
        /\ Cardinality(Errors("Summary")) = Cardinality(Failed("summarize"))
        /\ \A i \in Failed("summarize") :
              /\ Held(log[i].id) # ArticleNotFoundError
              /\ Held(log[i].id).summary = None

\* C7 as stated: a run whose fetch yielded no articles returns the all-zero
\* report with an empty errors list, having called nothing but the fetcher.
C7_EmptyFetchCleanReport ==
    (RunOver /\ raw_articles = <<>>) =>
        /\ outcome = "report"
        /\ results = NoResults
        /\ Len(log) = 1

\* C7 amended: a run whose fetch yielded no articles returns, without
\* raising and having called nothing but the fetcher, a report with all four
\* counters 0; errors is empty when fetch_articles returned an empty list and
\* holds the single 'Pipeline' entry of the FetchError when no source
\* delivered anything.
C7_EmptyFetchReport ==
    (RunOver /\ raw_articles = <<>>) =>
        /\ outcome = "report"
        /\ Len(log) = 1
        /\ log[1].stage = "fetch"
        /\ results.fetched = 0
        /\ results.stored = 0
        /\ results.summarized = 0
        /\ results.clustered = 0
        /\ results.errors =
              (IF log[1].ok THEN <<>>
               ELSE <<Err("Pipeline", <<>>, "FetchError")>>)

\* C7 witness: fetch_articles returned an empty list and the run returned
\* the all-zero report.
C7_Witness ==
    /\ RunOver
    /\ log = <<Ev("fetch", 0, TRUE, 0)>>
    /\ results = NoResults
    /\ outcome = "report"

\* C8: within a run the stages execute strictly in the order fetch, persist,
\* summarize, cluster, invalidate: the calls of a stage never follow a call of
\* a later stage, persist has attempted every fetched item before the first
\* summarize, summarize has attempted every stored article before clustering
\* starts, nothing follows cache.clear, and inside the persist and summarize
\* loops the items are processed in fetch order.
C8_StageOrder ==
    LET persisted == SelectSeq(log, LAMBDA e : e.stage = "persist")
        saved == SelectSeq(persisted, LAMBDA e : e.ok)
        summarized == SelectSeq(log, LAMBDA e : e.stage = "summarize")
        later == Events("cluster") \cup Events("invalidate")
    IN /\ Len(log) > 0 => log[1].stage = "fetch"
       /\ Cardinality(Events("fetch")) <= 1
       /\ \A i \in 1..(Len(log) - 1) :
             Rank(log[i].stage) <= Rank(log[i + 1].stage)
       /\ \A k \in 1..Len(persisted) : persisted[k].item = k
       /\ Len(saved) = Len(stored_articles)
       /\ \A k \in 1..Len(saved) : saved[k].id = heap[stored_articles[k]].id
       /\ \A k \in 1..Len(summarized) :
             /\ summarized[k].item = k
             /\ summarized[k].id = heap[stored_articles[k]].id
       /\ summarized # <<>> => Len(persisted) = Len(raw_articles)
       /\ later # {} =>
             /\ Len(persisted) = Len(raw_articles)
             /\ Len(summarized) = Len(stored_articles)
       /\ \A i \in Events("invalidate") : i = Len(log)

\* C8 witness: a finished run that stored and summarized two articles,
\* clustered them, saved an assignment and cleared the cache.
C8_Witness ==
    /\ RunOver
    /\ Cardinality(Succeeded("persist")) = 2
    /\ Cardinality(Events("summarize")) = 2
    /\ \E i \in Events("cluster") : log[i].item > 0
    /\ Events("invalidate") # {}

\* C9: a failure anywhere in the clustering stage (reading the articles,
\* cluster_articles, or saving the new cluster_id values) leaves exactly one
\* 'Clustering' entry in errors and clustered = 0, keeps fetched, stored and
\* summarized at their values, and the run goes on to cache invalidation.
C9_ClusteringFailureRecovered ==
    (RunOver /\ Failed("cluster") # {}) =>
        /\ Cardinality(Errors("Clustering")) = 1
        /\ results.clustered = 0
        /\ results.fetched = Len(raw_articles)
        /\ results.stored = Cardinality(Succeeded("persist"))
        /\ results.summarized = Cardinality(Succeeded("summarize"))
        /\ Events("invalidate") # {}
\* ------------------------------------------- claims about the stored articles
\* Every article the store holds: the documents and the in-memory objects.
StoredArticles ==
    {to_article(db[i]) : i \in 1..Len(db)}
        \cup {heap[memory_articles[i].oid] : i \in 1..Len(memory_articles)}

StoreIds == {a.id : a \in StoredArticles}

\* C13: no step of a run changes the content_hash of an article the store
\* already holds, be it a document or an object of the in-memory dict.
C13_ContentHashImmutable ==
    [][/\ \A i \in 1..Len(db) : db'[i].content_hash = db[i].content_hash
       /\ \A i \in 1..Len(memory_articles) :
             heap'[memory_articles'[i].oid].content_hash
                 = heap[memory_articles[i].oid].content_hash]_vars

\* C14: the article an earlier run stored with a summary is, when a later run
\* is over, still in the store (found by its url or its content hash) with a
\* summary.
C14_SummaryKept ==
    RunOver =>
        \E a \in StoredArticles :
            /\ a.url = FirstArticle.url \/ a.content_hash = FirstArticle.content_hash
            /\ a.summary # None

\* C15: the cluster stage hands cluster_articles every article of the store,
\* and when the stage has succeeded every article of the store is held with
\* the cluster_id this run gave it.
C15_ClustersWholeStore ==
    /\ (pc = "assign" /\ idx = 1) =>
          {heap[o].id : o \in Range(all_articles)} = StoreIds
    /\ (pc = "invalidate" /\ Succeeded("cluster") # {} /\ Failed("cluster") = {}) =>
          /\ all_articles = <<>> => StoreIds = {}
          /\ \A o \in Range(all_articles) :
                /\ Held(heap[o].id) # ArticleNotFoundError
                /\ Held(heap[o].id).cluster_id = heap[o].cluster_id

\* C21: a step that makes the store hold more articles has saved an article
\* whose url and content hash are those of no article stored before, in
\* MongoDB mode and in in-memory mode alike.
C21_SaveUpserts ==
    [][Len(db') + Len(memory_articles') > Len(db) + Len(memory_articles) =>
          LET saved == IF Len(db') > Len(db)
                       THEN to_article(db'[Len(db')])
                       ELSE heap'[memory_articles'[Len(memory_articles')].oid]
          IN \A a \in StoredArticles :
                /\ a.url # saved.url
                /\ a.content_hash # saved.content_hash]_vars

\* --------------------------------------------------- claims about the cache
\* What cache.get returns for a key when Redis (if in use) answers.
Cached(key) ==
    cache_get(cache, key, IF CacheSuspends(cache) THEN "ok" ELSE "down",
              clock).value

\* A response computed before the cluster stage of the current run.
BeforeClustering(resp) ==
    \/ resp.at.run < runs
    \/ resp.at.run = runs /\ resp.at.pc \in {"idle", "persist", "summarize", "cluster"}

\* C11: once a run that cleared the cache has returned its report, the
\* cache holds no response that was computed before the run's cluster stage
\* and differs from what the handler would compute now.
C11_NoStaleResponse ==
    (RunOver /\ outcome = "report" /\ Succeeded("invalidate") # {}) =>
        \A key \in Keys :
            Cached(key) # Miss =>
                ~ /\ BeforeClustering(Cached(key))
                  /\ Cached(key).data # Compute(key, TRUE).data

\* ------------------------------------------------ claims about deduplicate
\* Two raw articles are duplicates of each other.
SameArticle(a, b) == a.url = b.url \/ a.content_hash = b.content_hash

\* The articles of a list at the positions P, in list order.
AtPositions(articles, P) ==
    SelectSeq([i \in 1..Len(articles) |-> [pos |-> i, article |-> articles[i]]],
              LAMBDA e : e.pos \in P)

\* The position sets P for which ret is the list of articles at P, no two of
\* them duplicates.
KeptPositions(articles, ret) ==
    {P \in SUBSET (1..Len(articles)) :
        /\ ret = [k \in 1..Len(AtPositions(articles, P)) |->
                     AtPositions(articles, P)[k].article]
        /\ \A i, j \in P : i # j => ~SameArticle(articles[i], articles[j])}

\* C27 as stated: the result is a duplicate-free subsequence in which every
\* article kept is the first of the input with its url and with its content
\* hash; a duplicate-free input is returned unchanged; deduplicating the
\* result changes nothing.
C27_KeepsFirstOccurrences ==
    call.op = "deduplicate" =>
        /\ \E P \in KeptPositions(call.articles, call.ret) :
              \A i \in P : \A j \in 1..(i - 1) :
                  ~SameArticle(call.articles[j], call.articles[i])
        /\ (\A i, j \in 1..Len(call.articles) :
               i # j => ~SameArticle(call.articles[i], call.articles[j]))
              => call.ret = call.articles
        /\ deduplicate(call.ret) = call.ret

\* C27 amended: the result is a duplicate-free subsequence of the input in
\* which an article is dropped exactly when it is a duplicate of an article
\* kept before it; a duplicate-free input is returned unchanged;
\* deduplicating the result changes nothing.
C27_DropsDuplicatesOfKept ==
    call.op = "deduplicate" =>
        /\ \E P \in KeptPositions(call.articles, call.ret) :
              \A i \in 1..Len(call.articles) :
                  i \notin P <=>
                      \E j \in P : j < i /\ SameArticle(call.articles[j],
                                                        call.articles[i])
        /\ (\A i, j \in 1..Len(call.articles) :
               i # j => ~SameArticle(call.articles[i], call.articles[j]))
              => call.ret = call.articles
        /\ deduplicate(call.ret) = call.ret

\* C27 witness: an article was kept although an earlier article of the
\* input, itself dropped as a duplicate, has the same content hash.
C27_Witness ==
    /\ call.op = "deduplicate"
    /\ Len(call.articles) = 3
    /\ call.ret = <<call.articles[1], call.articles[3]>>
    /\ call.articles[2].url = call.articles[1].url
    /\ call.articles[2].content_hash = call.articles[3].content_hash

\* ------------------------------------------ claims about retry_with_backoff
\* The invocations of the wrapped function so far.
Invocations == SelectSeq(call.trace, LAMBDA e : e.kind = "invoke")

\* The sleeps of the wrapper so far.
Sleeps == SelectSeq(call.trace, LAMBDA e : e.kind = "sleep")

RECURSIVE Power(_, _)
Power(b, k) == IF k = 0 THEN 1 ELSE b * Power(b, k - 1)

\* C26: a function wrapped with max_retries = n is invoked at most n + 1
\* times; the wrapper returns the result of the first successful invocation
\* and invokes nothing after it; when n + 1 invocations raised a listed
\* exception it raises the last of them; every sleep lies between two
\* invocations, none follows the final one, and the k-th sleep lasts
\* initial_delay * backoff_factor^(k-1).
C26_RetryBounded ==
    call.op = "retry" =>
        /\ Len(Invocations) <= call.max_retries + 1
        /\ call.status = "running" => Len(Invocations) <= call.max_retries
        /\ \A i \in 1..(Len(Invocations) - 1) :
              Invocations[i].outcome.kind = "listed"
        /\ call.status = "returned" =>
              /\ Invocations[Len(Invocations)].outcome.kind = "ok"
              /\ call.ret = Invocations[Len(Invocations)].outcome.value
        /\ (call.status = "raised"
              /\ Invocations[Len(Invocations)].outcome.kind = "listed") =>
                 /\ Len(Invocations) = call.max_retries + 1
                 /\ call.exc = Invocations[Len(Invocations)].outcome.exc
        /\ call.status # "running" => Invocations # <<>>
        /\ \A i \in 1..Len(call.trace) :
              call.trace[i].kind = "sleep" =>
                 /\ i > 1 /\ call.trace[i - 1].kind = "invoke"
                 /\ i < Len(call.trace) => call.trace[i + 1].kind = "invoke"
                 /\ i = Len(call.trace) => call.status = "running"
        /\ \A k \in 1..Len(Sleeps) :
              Sleeps[k].delay
                 = call.initial_delay * Power(call.backoff_factor, k - 1)

\* C26 witness: every attempt raised a listed exception, the wrapper slept
\* between them with a growing delay and has raised.
C26_Witness ==
    /\ call.op = "retry"
    /\ call.status = "raised"
    /\ call.max_retries = MaxRetries
    /\ Len(Invocations) = MaxRetries + 1
    /\ Len(Sleeps) = MaxRetries
    /\ call.backoff_factor > 1
    /\ call.exc # Invocations[1].outcome.exc

\* ----------------------------------------------- claims about the summarizer
\* The words of a text without their punctuation.
Texts(words) == [i \in 1..Len(words) |-> words[i].text]

\* The words of the first k sentences.
RECURSIVE FirstSentences(_, _)
FirstSentences(sentences, k) ==
    IF k = 0 THEN <<>>
    ELSE Head(sentences) \o FirstSentences(Tail(sentences), k - 1)

\* C28: batch_summarize returns one summary per content, and the summary of
\* a non-empty content is non-empty, also when the model is unavailable.
C28_BatchSummariesNonEmpty ==
    call.op = "batch_summarize" =>
        /\ Len(call.ret) = Len(call.contents)
        /\ \A i \in 1..Len(call.contents) :
              call.contents[i] # <<>> => call.ret[i] # <<>>

\* C29: the extractive summary has at most max_length words, and they are,
\* in order, the words of a prefix of the content's sentences.
C29_ExtractiveWithinLimit ==
    call.op = "extractive_summarize" =>
        /\ Len(call.ret) <= call.max_length
        /\ \E k \in 0..Len(split_sentences(call.content, <<>>)) :
              Texts(call.ret)
                 = Texts(FirstSentences(split_sentences(call.content, <<>>), k))

\* C29 witness: the summary is the first sentence of a content whose second
\* sentence no longer fits.
C29_Witness ==
    /\ call.op = "extractive_summarize"
    /\ Len(split_sentences(call.content, <<>>)) = 2
    /\ Len(call.ret) = 1
    /\ Len(call.content) > call.max_length
    /\ call.max_length = MaxLength

\* ------------------------------------------ claims about the cache manager
\* C22 as stated: in in-memory mode a get returns the value of the latest
\* set of its key while less than the ttl has passed since that set, and
\* from then on returns None and leaves no entry for the key.
C22_ExpiresWhenTtlElapsed ==
    (call.op = "get" /\ call.key \in DOMAIN shadow.sets
        /\ shadow.sets[call.key].memory) =>
        LET s == shadow.sets[call.key]
        IN /\ call.now - s.at < s.ttl => call.ret = s.value
           /\ call.now - s.at >= s.ttl =>
                 call.ret = Miss /\ call.key \notin DOMAIN cache.memory

\* C22 amended: in in-memory mode a get returns the value of the latest set
\* of its key while no more than the ttl has passed since that set, the
\* instant of expiry included; once more than the ttl has passed it returns
\* None and leaves no entry for the key.
C22_ExpiresAfterTtl ==
    (call.op = "get" /\ call.key \in DOMAIN shadow.sets
        /\ shadow.sets[call.key].memory) =>
        LET s == shadow.sets[call.key]
        IN /\ call.now - s.at <= s.ttl => call.ret = s.value
           /\ call.now - s.at > s.ttl =>
                 call.ret = Miss /\ call.key \notin DOMAIN cache.memory

\* C22 witness: a get at the very instant of expiry has returned the value.
C22_Witness ==
    /\ call.op = "get"
    /\ call.key \in DOMAIN shadow.sets
    /\ shadow.sets[call.key].memory
    /\ shadow.sets[call.key].ttl > 0
    /\ call.now = shadow.sets[call.key].at + shadow.sets[call.key].ttl
    /\ call.ret = shadow.sets[call.key].value

\* C23: a get_or_compute for a key for which an earlier get_or_compute
\* computed and cached a value, not yet expired and not deleted, cleared or
\* overwritten since, returns that value without invoking compute_fn.
C23_ComputesOnlyOnMiss ==
    call.op = "get_or_compute" =>
        \A s \in call.known :
            (s.by = "compute" /\ call.now - s.at < s.ttl) =>
                ~call.invoked /\ call.ret = s.value

\* C24: a delete leaves what is held under the other keys as it was; a get
\* for a key that was deleted or cleared, and not set since, returns None;
\* a size after a clear with no set since is 0.
C24_RemovalExact ==
    /\ call.op = "delete" =>
          \A k \in Keys \ {call.key} : EntriesOf(cache, k) = call.others[k]
    /\ (call.op = "get" /\ call.key \in shadow.removed) => call.ret = Miss
    /\ (call.op = "size" /\ shadow.cleared) => call.ret = 0

\* ------------------------------------------- claims about the article store
\* C25: in in-memory mode get_article returns the article of the latest save
\* under the id; for an id never saved, or archived since, it raises
\* ArticleNotFoundError and the store is as before; count_articles is the
\* number of ids saved and not archived.
C25_MemoryStoreLookup ==
    /\ call.op = "get_article" =>
          IF call.id \in DOMAIN shadow.saved
          THEN call.ret = shadow.saved[call.id]
          ELSE /\ call.ret = ArticleNotFoundError
               /\ call.before = <<memory_articles, db>>
    /\ call.op = "count_articles" =>
          call.ret = Cardinality(DOMAIN shadow.saved)

\* C25 witness: get_article has raised for an id that was saved and then
\* archived.
C25_Witness ==
    /\ call.op = "get_article"
    /\ call.id \in shadow.archived
    /\ call.ret = ArticleNotFoundError
    /\ memory_articles = <<>>

====
